---- MODULE Spec2Model ----
(***************************************************************************)
(* Verification model of the Catalyst web wallet (catalyst-network/        *)
(* web_wallet): the per-sender nonce allocator of the wallet UI, the send  *)
(* flow, the JSON-RPC client with failover and the chain-identity guard.   *)
(***************************************************************************)
EXTENDS Integers, Sequences, FiniteSets, TLC

\* ------------------------------------------------------------------ bounds
\* Number of allocateNonce invocations a run may initiate.
MaxCalls == 3
\* How many times the chain's committed nonce may advance during a run.
MaxAdvance == 2
\* The committed nonce an account may already have when the wallet starts.
BaseCommitted == 4
\* Largest number of URLs an RPC client is constructed with.
MaxUrls == 3
\* Number of CatalystRpcClient.call invocations a run may make.
MaxRpcCalls == 2
\* Longest chain_id string enumerated as an RPC answer.
MaxIdLen == 3
\* Number of send / faucet operations a run may start.
MaxOps == 2
\* Number of accounts a wallet may grow to.
MaxAccounts == 3
MaxPlainLen == 2
MaxRuns == 2
MaxTracked == 2
MaxTicks == 1
MaxPending == 2
MaxChanges == 2
MaxVerifying == 2

\* ------------------------------------------------------------- allocator
\* Sender addresses: the selected account and the shared dev faucet.
Senders == {"addrA", "addrF"}

\* addressHex of the unlocked wallet's selected account, and faucetAddressHex.
AddressHex == "addrA"
FaucetAddressHex == "addrF"

\* Map.get() of a missing key.
Undefined == -1

Calls == 1..MaxCalls

VARIABLES
  \* --- nonce allocator (App.tsx / popupApp.tsx) ---
  nextNonceByAddr,   \* nextNonceByAddrRef: sender -> next nonce, or Undefined
  nonceLocks,        \* nonceLocksRef: sender -> call whose tail promise is stored (0: no entry)
  callPc,            \* position of each allocateNonce invocation
  callSender,        \* its senderHex32 argument
  callPrev,          \* the call whose tail promise it captured as `prev` (0: Promise.resolve())
  released,          \* whether its `next` promise was resolved by release()
  callResult,        \* the nonce it returned
  rpcSnap,           \* committed nonce on the chain when its getNonce request was sent
  committedNonce,    \* the chain: committed nonce per account
  advances,          \* how many times the chain advanced
  \* --- observation of the allocator ---
  completedLog,      \* sender -> its allocateNonce invocations in the order they completed
  raisedSince,       \* sender -> a floor bump raised nextNonceByAddr since the last allocation
  callRaised,        \* call -> raisedSince[sender] when the call allocated
  \* --- CatalystRpcClient (rpc.ts) ---
  urlCount,          \* this.urls.length
  lastGoodIndex,     \* this.lastGoodIndex (0-based, as in the code)
  nextId,            \* this.nextId
  rpcCalls,          \* call invocation -> its locals (pc, allowFailover, id, idxs, pos,
                     \* lastErr, out) and, observed: lastGoodIndex at its start, the
                     \* URL indexes it POSTed to, the outcome of its last POST
  \* --- assertChainIdentity (rpc.ts) ---
  idReported,        \* what the endpoint reports: chain_id, network_id, genesis_hash
  idCfg,             \* the CatalystNetworkConfig passed in
  idPc,              \* position of the assertChainIdentity invocation
  idGot,             \* its locals chainId, networkId, genesisHash (<<>>: null)
  idResult,          \* "pending", "ok", or the error it threw
  idCalled,          \* the RPC methods it called, in order
  \* --- account state (App.tsx) ---
  balance,           \* balance state: last fetched balance, or Undefined (null)
  chainBalance,      \* the chain: what catalyst_getBalance answers for addressHex
  \* --- send / faucet (App.tsx, popupApp.tsx) ---
  chainOk,           \* chainOk state: "null", "true" or "false"
  fee,               \* fee state: last estimated fee, or Undefined (null)
  txs,               \* txs state: tracked transactions, newest first
  sendBusy,          \* sendBusy state
  faucetBusy,        \* faucetBusy state
  op,                \* the running send / requestFaucetFunds invocation: its position,
                     \* inputs, locals, and what it did so far
  opCount,           \* operations started
  idCaller,          \* who awaits the running assertChainIdentity
  broadcasts,        \* transactions handed to rpc.sendRawTransaction, in order
  \* --- wallet model (wallet.ts) ---
  walletData,        \* the WalletDataV2 value held, or NoWallet
  walletThrown,      \* what the last wallet function threw, or "none"
  nextAcctId,        \* randomId: the next fresh account id
  walletOp,          \* observed: the wallet function called last
  walletInput,       \* observed: the payload parseWalletDataAny was given last
  \* --- vault (wallet-core vault.ts) ---
  vaultRecord,       \* the VaultRecordV1 createVaultV1 returned, or NoRecord
  vaultOpened,       \* what openVaultV1 returned, or NotOpened
  vaultThrown,       \* the error openVaultV1 threw, or "none"
  vaultArgs,         \* observed: the password and plaintext given to createVaultV1
  \* --- transaction codec (catalyst-sdk tx.ts / encoding.ts) ---
  txRuns,            \* observed: the calls made, each with its arguments and results
  \* --- wallet application state and localStorage (App.tsx) ---
  lsVault,           \* localStorage[LS_VAULT]: the vault record, or NoVault
  lsTxs,             \* localStorage[txsStorageKey]: address -> stored list, or null
  lsWritten,         \* observed: every value written to localStorage
  uiWallet,          \* walletData and sessionPassword, or NoUiWallet when locked
  uiAddress,         \* addressHex: the selected account's address, or NoAddress
  uiTxs,             \* txs: the tracked transactions shown
  uiDeps,            \* the dependencies the effects last ran with
  uiNextTx,          \* the next local transaction id
  \* --- receipt polling (App.tsx) ---
  pollPending,       \* the pending entries the running tick iterates over, or NoTick
  \* --- the tracked list and its polling loop (App.tsx) ---
  trkTxs,            \* txs: the tracked entries, newest first
  trkTicks,          \* the interval callbacks: idle, or awaiting a receipt
  trkQuery,          \* observed: the getTransactionReceipt call the last step made
  trkLast,           \* observed: the reply or failure the last step handled
  trkTriggered,      \* observed: the refreshes the last step started
  \* --- the extension popup's wallet and vault (popupApp.tsx) ---
  popStored,         \* chrome.storage.local[STORAGE_VAULT_KEY]: the vault record
  popVault,          \* vault: the record the popup holds
  popLocked,         \* locked
  popWallet,         \* walletData, or NoPopWallet
  popPassword,       \* sessionPassword, or NoPassword
  popPending,        \* the persistWallet calls awaiting storageSet, oldest first
  popLast,           \* observed: the handler the last step started or finished
  \* --- one send over the failover client (App.tsx, rpc.ts) ---
  epExpected,        \* the URL indexes whose node reports the configured chain identity
  epSend,            \* the send: its position, the RPC method it awaits, and,
                     \* observed: the URLs that answered its identity check,
                     \* the methods it called
  \* --- lock and a running send (App.tsx) ---
  lkLocked,          \* locked
  lkVault,           \* localStorage[LS_VAULT]: the account selected in the stored wallet
  lkSession,         \* walletData, privkeyHex and sessionPassword, each held or "null"
  lkTxs,             \* txs: the local ids of the tracked transactions, newest first
  lkStored,          \* address -> localStorage[txsStorageKey], or NoStoredTxs
  lkSend,            \* the running send: its position and what its closure holds
  lkCount,           \* sends started
  lkSince,           \* observed: what send did while the wallet was locked
  \* --- the cached chain verification (App variant src/unnamed/part_000) ---
  vfUrl,             \* rpcUrl: the URL configured
  vfGood,            \* the URLs whose node reports the configured chain identity
  vfChainOk,         \* chainOk: "null", "true" or "false"
  vfRuns,            \* the verifyChain calls awaiting assertChainIdentity, each with
                     \* the URL of its client
  vfEpoch,           \* how many times rpcUrl was changed
  vfPassed,          \* observed: a verification started since the last change of
                     \* rpcUrl passed
  vfSigned           \* observed: the URLs send signed for, each with vfPassed at the time

mapVars == <<nextNonceByAddr, raisedSince>>
lockVars == <<nonceLocks, callSender, callPrev>>
callVars == <<callPc, released, callResult, rpcSnap, completedLog, callRaised>>
chainVars == <<committedNonce, advances>>

allocVars == <<mapVars, lockVars, callVars, chainVars>>

rpcVars == <<urlCount, lastGoodIndex, nextId, rpcCalls>>

idVars == <<idReported, idCfg, idPc, idGot, idResult, idCalled>>

accountVars == <<balance, chainBalance>>

sendVars == <<chainOk, fee, txs, sendBusy, faucetBusy, op, opCount, idCaller, broadcasts>>

walletVars == <<walletData, walletThrown, nextAcctId, walletOp, walletInput>>

\* The variables of the wallet-core and codec sections.
vaultVars == <<vaultRecord, vaultOpened, vaultThrown, vaultArgs>>

txVars == <<txRuns>>

appVars == <<lsVault, lsTxs, lsWritten, uiWallet, uiAddress, uiTxs, uiDeps, uiNextTx>>

pollVars == <<pollPending>>

trackVars == <<trkTxs, trkTicks, trkQuery, trkLast, trkTriggered>>

popVars == <<popStored, popVault, popLocked, popWallet, popPassword, popPending, popLast>>

epVars == <<epExpected, epSend>>

lkVars == <<lkLocked, lkVault, lkSession, lkTxs, lkStored, lkSend, lkCount, lkSince>>

vfVars == <<vfUrl, vfGood, vfChainOk, vfRuns, vfEpoch, vfPassed, vfSigned>>

extVars == <<walletVars, vaultVars, txVars, appVars, pollVars, trackVars, popVars, epVars, lkVars, vfVars>>

coreVars == <<allocVars, rpcVars, idVars, accountVars, sendVars>>
nonWalletExt == <<vaultVars, txVars, appVars, pollVars, trackVars, popVars, epVars, lkVars, vfVars>>
nonVaultExt == <<walletVars, txVars, appVars, pollVars, trackVars, popVars, epVars, lkVars, vfVars>>
nonTxExt == <<walletVars, vaultVars, appVars, pollVars, trackVars, popVars, epVars, lkVars, vfVars>>
nonAppExt == <<walletVars, vaultVars, txVars, pollVars, trackVars, popVars, epVars, lkVars, vfVars>>
nonPollExt == <<walletVars, vaultVars, txVars, appVars, trackVars, popVars, epVars, lkVars, vfVars>>
nonTrackExt == <<walletVars, vaultVars, txVars, appVars, pollVars, popVars, epVars, lkVars, vfVars>>
nonPopExt == <<walletVars, vaultVars, txVars, appVars, pollVars, trackVars, epVars, lkVars, vfVars>>
nonEpExt == <<walletVars, vaultVars, txVars, appVars, pollVars, trackVars, popVars, lkVars, vfVars>>
nonLkExt == <<walletVars, vaultVars, txVars, appVars, pollVars, trackVars, popVars, epVars, vfVars>>
nonVfExt == <<walletVars, vaultVars, txVars, appVars, pollVars, trackVars, popVars, epVars, lkVars>>

vars == <<allocVars, rpcVars, idVars, accountVars, sendVars, extVars>>

\* What the allocator's steps leave alone.
nonAllocVars == <<rpcVars, idVars, accountVars, sendVars, extVars>>

\* What the RPC client's steps, and assertChainIdentity's, leave alone.
nonRpcVars == <<allocVars, idVars, accountVars, sendVars, extVars>>
nonIdVars == <<allocVars, rpcVars, accountVars, sendVars, extVars>>

\* The promise stored in nonceLocksRef by call c is prev.then(() => next):
\* it is resolved once prev is resolved and c's own `next` was released.
RECURSIVE TailResolved(_)
TailResolved(c) ==
  IF c = 0 THEN TRUE
  ELSE released[c] /\ TailResolved(callPrev[c])

\* Mutant: the call does not wait for its predecessor.
PrevResolved_noAwait(c) == TRUE

\* `await prev` lets the call continue.
PrevResolved(c) == TailResolved(callPrev[c])

\* Mutant: release() is not called.
Release_missing(c) == UNCHANGED released

\* finally { release(); }
Release(c) == released' = [released EXCEPT ![c] = TRUE]

\* Mutant: the tail promise is not stored, so the next call finds no lock.
StoreTail_missing(c, s) == UNCHANGED nonceLocks

\* nonceLocksRef.current.set(senderHex32, prev.then(() => next));
StoreTail(c, s) == nonceLocks' = [nonceLocks EXCEPT ![s] = c]

\* Mutant: the map keeps n instead of n + 1.
StoreNext_sameNonce(s, n) == nextNonceByAddr' = [nextNonceByAddr EXCEPT ![s] = n]

\* nextNonceByAddrRef.current.set(senderHex32, n + 1n);
StoreNext(s, n) == nextNonceByAddr' = [nextNonceByAddr EXCEPT ![s] = n + 1]

\* nextNonceByAddrRef.current.set(sender, n + 1n); return n;
TakeNonce(c, n) ==
  LET s == callSender[c] IN
  /\ StoreNext(s, n)
  /\ callResult' = [callResult EXCEPT ![c] = n]
  /\ callPc' = [callPc EXCEPT ![c] = "returned"]
  /\ completedLog' = [completedLog EXCEPT ![callSender[c]] = Append(@, c)]
  /\ callRaised' = [callRaised EXCEPT ![c] = raisedSince[s]]
  /\ raisedSince' = [raisedSince EXCEPT ![s] = FALSE]

\* The body of allocateNonce(senderHex32) up to `await prev`, run by
\* invocation c.
AllocateNonceCall(c, s) ==
  /\ callPrev' = [callPrev EXCEPT ![c] = nonceLocks[s]]
  /\ StoreTail(c, s)
  /\ callSender' = [callSender EXCEPT ![c] = s]
  /\ callPc' = [callPc EXCEPT ![c] = "awaitPrev"]
  /\ UNCHANGED <<released, callResult, rpcSnap, completedLog, callRaised>>

\* allocateNonce(senderHex32) is invoked (invocations are numbered in the
\* order they start).
AllocateNonce(c, s) ==
  /\ callPc[c] = "idle"
  /\ \A d \in Calls : d < c => callPc[d] # "idle"
  /\ AllocateNonceCall(c, s)
  /\ UNCHANGED <<mapVars, chainVars>>
  /\ UNCHANGED nonAllocVars

\* allocateNonce after `await prev`: the critical section up to its first
\* suspension (the getNonce RPC), or to its end when the nonce is known.
AllocEnter(c) ==
  /\ callPc[c] = "awaitPrev"
  /\ PrevResolved(c)
  /\ LET s == callSender[c]
         n == nextNonceByAddr[s]
     IN IF n = Undefined
        THEN /\ callPc' = [callPc EXCEPT ![c] = "awaitRpc"]
             /\ rpcSnap' = [rpcSnap EXCEPT ![c] = committedNonce[s]]
             /\ UNCHANGED <<mapVars, released, callResult, completedLog, callRaised>>
        ELSE /\ TakeNonce(c, n)
             /\ Release(c)
             /\ UNCHANGED rpcSnap
  /\ UNCHANGED <<lockVars, chainVars>>
  /\ UNCHANGED nonAllocVars

\* rpc.getNonce answers: committed is the chain's value at some moment
\* between the request and the answer.
AllocGetNonceReply(c) ==
  /\ callPc[c] = "awaitRpc"
  /\ \E committed \in rpcSnap[c]..committedNonce[callSender[c]] :
       TakeNonce(c, committed + 1)
  /\ Release(c)
  /\ rpcSnap' = [rpcSnap EXCEPT ![c] = 0]
  /\ UNCHANGED <<lockVars, chainVars>>
  /\ UNCHANGED nonAllocVars

\* rpc.getNonce throws (timeout, HTTP or RPC error): allocateNonce rethrows
\* after the finally block.
AllocGetNonceFail(c) ==
  /\ callPc[c] = "awaitRpc"
  /\ callPc' = [callPc EXCEPT ![c] = "thrown"]
  /\ completedLog' = [completedLog EXCEPT ![callSender[c]] = Append(@, c)]
  /\ Release(c)
  /\ rpcSnap' = [rpcSnap EXCEPT ![c] = 0]
  /\ UNCHANGED <<callResult, callRaised>>
  /\ UNCHANGED <<mapVars, lockVars, chainVars>>
  /\ UNCHANGED nonAllocVars

\* Mutant: the floor is stored whatever the map holds.
BumpNextNonceFloor_always(s, committed) ==
  /\ nextNonceByAddr' = [nextNonceByAddr EXCEPT ![s] = committed + 1]
  /\ raisedSince' = [raisedSince EXCEPT ![s] = TRUE]

\* bumpNextNonceFloor(senderHex32, committedNonce)
BumpNextNonceFloor(s, committed) ==
  LET floor == committed + 1
      cur == nextNonceByAddr[s]
  IN IF cur = Undefined \/ cur < floor
     THEN /\ nextNonceByAddr' = [nextNonceByAddr EXCEPT ![s] = floor]
          /\ raisedSince' = [raisedSince EXCEPT ![s] = TRUE]
     ELSE UNCHANGED mapVars

\* refreshAccount (App.tsx 613-624, popupApp.tsx 284-298): getBalance and
\* getNonce are answered, getNonce with a committed nonce the chain had since
\* the wallet started (refreshes start at any time, and any number of them are
\* in flight); the balance is stored and the floor is bumped. A refresh whose
\* RPC fails changes nothing.
RefreshAccount ==
  /\ \E n \in BaseCommitted..committedNonce[AddressHex] :
       BumpNextNonceFloor(AddressHex, n)
  /\ balance' = chainBalance
  /\ UNCHANGED <<lockVars, callVars, chainVars>>
  /\ UNCHANGED <<rpcVars, extVars, idVars, sendVars, chainBalance>>

\* The faucet's floor effect (App.tsx 720-728):
\* rpc.getNonce(faucetAddressHex).then((n) => bumpNextNonceFloor(faucetAddressHex, n)).
FaucetFloorEffect ==
  /\ \E n \in BaseCommitted..committedNonce[FaucetAddressHex] :
       BumpNextNonceFloor(FaucetAddressHex, n)
  /\ UNCHANGED <<lockVars, callVars, chainVars>>
  /\ UNCHANGED nonAllocVars

\* The chain commits one more transaction of account s (sent by this wallet
\* earlier, or by another process using the same account).
ChainCommit(s) ==
  /\ advances < MaxAdvance
  /\ advances' = advances + 1
  /\ committedNonce' = [committedNonce EXCEPT ![s] = @ + 1]
  /\ UNCHANGED <<mapVars, lockVars, callVars>>
  /\ UNCHANGED nonAllocVars

\* ------------------------------------------------------- CatalystRpcClient
RpcCalls == 1..MaxRpcCalls
Urls == 0..(urlCount - 1)

\* HTTP statuses an endpoint may answer with when the response is not ok.
HttpStatuses == {404, 408, 429, 500}

\* What one HTTP POST of fetchRpc can end with.
FetchOutcomes ==
  {[kind |-> k, status |-> 0] :
     k \in {"timeout", "abortError", "abortBody", "network", "rpcError", "badJson"}}
  \cup {[kind |-> "http", status |-> st] : st \in HttpStatuses}

NoError == [name |-> "none", status |-> 0]
NoOutcome == [kind |-> "none", status |-> 0]

\* The error fetchRpc throws for an outcome: an abort of the request is an
\* RpcTimeoutError (the abort reason, or the AbortError rewritten); a not-ok
\* response is an RpcHttpError; a JSON-RPC error object is a plain Error; a
\* network failure is fetch's TypeError; errors of res.json() pass through.
FetchRpcError(o) ==
  CASE o.kind = "timeout" -> [name |-> "RpcTimeoutError", status |-> 0]
    [] o.kind = "abortError" -> [name |-> "RpcTimeoutError", status |-> 0]
    [] o.kind = "abortBody" -> [name |-> "AbortError", status |-> 0]
    [] o.kind = "network" -> [name |-> "TypeError", status |-> 0]
    [] o.kind = "http" -> [name |-> "RpcHttpError", status |-> o.status]
    [] o.kind = "rpcError" -> [name |-> "Error", status |-> 0]
    [] OTHER -> [name |-> "SyntaxError", status |-> 0]

\* Mutant: every HTTP error status fails over.
ShouldFailover_anyHttp(err) ==
  \/ err.name \in {"RpcTimeoutError", "AbortError", "TypeError"}
  \/ err.name = "RpcHttpError"

\* shouldFailover(err)
ShouldFailover(err) ==
  IF err.name = "RpcTimeoutError" THEN TRUE
  ELSE IF err.name = "AbortError" THEN TRUE
  ELSE IF err.name = "RpcHttpError"
       THEN err.status >= 500 \/ err.status = 408 \/ err.status = 429
  ELSE IF err.name = "TypeError" THEN TRUE
  ELSE FALSE

Min(a, b) == IF a < b THEN a ELSE b
Max(a, b) == IF a > b THEN a ELSE b

\* Mutant: the rotation always starts at the first URL.
OrderedIndexesForAttempt_fromZero == [i \in 1..urlCount |-> i - 1]

\* orderedIndexesForAttempt(): start .. n-1, then 0 .. start-1.
OrderedIndexesForAttempt ==
  LET n == urlCount
      start == Max(0, Min(n - 1, lastGoodIndex))
  IN [i \in 1..n |-> IF i <= n - start THEN start + i - 1 ELSE i - 1 - (n - start)]

\* Mutant: without failover the first URL is tried.
AttemptIndexes_firstUrl(allowFailover) ==
  IF allowFailover THEN OrderedIndexesForAttempt ELSE <<0>>

\* const idxs = allowFailover ? this.orderedIndexesForAttempt() : [this.lastGoodIndex];
AttemptIndexes(allowFailover) ==
  IF allowFailover THEN OrderedIndexesForAttempt ELSE <<lastGoodIndex>>

\* The locals of call(method, params, opts) at its first
\* `await this.fetchRpc(...)`.
CallLocals(allowFailover) ==
  LET idxs == AttemptIndexes(allowFailover)
  IN [pc |-> "fetching", allowFailover |-> allowFailover, id |-> nextId,
      idxs |-> idxs, pos |-> 1, lastErr |-> NoError, out |-> -1,
      start |-> lastGoodIndex, posted |-> <<idxs[1]>>, lastOutcome |-> NoOutcome]

\* call(method, params, opts) up to the first `await this.fetchRpc(...)`.
RpcCall(c, allowFailover) ==
  /\ rpcCalls[c].pc = "idle"
  /\ \A d \in RpcCalls : d < c => rpcCalls[d].pc # "idle"
  /\ rpcCalls' = [rpcCalls EXCEPT ![c] = CallLocals(allowFailover)]
  /\ nextId' = nextId + 1
  /\ UNCHANGED <<urlCount, lastGoodIndex>>
  /\ UNCHANGED nonRpcVars

\* fetchRpc returned json.result: the URL's index is remembered and the
\* result (here: which URL answered) is returned.
RpcFetchOk(c) ==
  /\ rpcCalls[c].pc = "fetching"
  /\ LET r == rpcCalls[c]
         idx == r.idxs[r.pos]
     IN /\ lastGoodIndex' = idx
        /\ rpcCalls' = [rpcCalls EXCEPT ![c] =
             [r EXCEPT !.pc = "returned", !.out = idx,
                       !.lastOutcome = [kind |-> "result", status |-> 0]]]
  /\ UNCHANGED <<urlCount, nextId>>
  /\ UNCHANGED nonRpcVars

\* Mutant: after a retryable failure the same endpoint is tried again.
RpcFetchFail_sameUrl(c, o) ==
  /\ rpcCalls[c].pc = "fetching"
  /\ LET r == rpcCalls[c]
         e == FetchRpcError(o)
         seen == [r EXCEPT !.lastErr = e, !.lastOutcome = o]
     IN IF ~r.allowFailover \/ ~ShouldFailover(e) \/ Len(r.posted) > MaxUrls
        THEN rpcCalls' = [rpcCalls EXCEPT ![c] = [seen EXCEPT !.pc = "thrown"]]
        ELSE rpcCalls' = [rpcCalls EXCEPT ![c] =
               [seen EXCEPT !.posted = Append(@, r.idxs[r.pos])]]
  /\ UNCHANGED <<urlCount, lastGoodIndex, nextId>>
  /\ UNCHANGED nonRpcVars

\* fetchRpc threw: break and rethrow, or try the next endpoint.
RpcFetchFail(c, o) ==
  /\ rpcCalls[c].pc = "fetching"
  /\ LET r == rpcCalls[c]
         e == FetchRpcError(o)
         seen == [r EXCEPT !.lastErr = e, !.lastOutcome = o]
     IN IF ~r.allowFailover \/ ~ShouldFailover(e) \/ r.pos = Len(r.idxs)
        THEN rpcCalls' = [rpcCalls EXCEPT ![c] = [seen EXCEPT !.pc = "thrown"]]
        ELSE rpcCalls' = [rpcCalls EXCEPT ![c] =
               [seen EXCEPT !.pos = r.pos + 1, !.posted = Append(@, r.idxs[r.pos + 1])]]
  /\ UNCHANGED <<urlCount, lastGoodIndex, nextId>>
  /\ UNCHANGED nonRpcVars

IdleRpcCall ==
  [pc |-> "idle", allowFailover |-> TRUE, id |-> 0, idxs |-> <<>>, pos |-> 0,
   lastErr |-> NoError, out |-> -1, start |-> 0, posted |-> <<>>, lastOutcome |-> NoOutcome]

\* new CatalystRpcClient(urls): at least one URL, lastGoodIndex 0, nextId 1.
RpcInit ==
  /\ urlCount \in 1..MaxUrls
  /\ lastGoodIndex = 0
  /\ nextId = 1
  /\ rpcCalls = [c \in RpcCalls |-> IdleRpcCall]

RpcNext ==
  \/ \E c \in RpcCalls, allowFailover \in BOOLEAN : RpcCall(c, allowFailover)
  \/ \E c \in RpcCalls : RpcFetchOk(c)
  \/ \E c \in RpcCalls, o \in FetchOutcomes : RpcFetchFail(c, o)

\* ----------------------------------------------------- assertChainIdentity
\* Strings are sequences of one-character strings.
UpperChars == <<"A", "B", "C", "D", "E", "F", "N", "T", "V", "X">>
LowerChars == <<"a", "b", "c", "d", "e", "f", "n", "t", "v", "x">>
DigitChars == <<"0", "1", "2", "3", "4", "5", "6", "7", "8", "9",
                "a", "b", "c", "d", "e", "f">>

\* String.prototype.toLowerCase, one character.
LowerChar(ch) ==
  IF \E i \in 1..Len(UpperChars) : UpperChars[i] = ch
  THEN LowerChars[CHOOSE i \in 1..Len(UpperChars) : UpperChars[i] = ch]
  ELSE ch

\* Mutant: normalize is the identity.
ToLowerCase_identity(str) == str

\* const normalize = (s: string) => s.toLowerCase();
ToLowerCase(str) == [i \in 1..Len(str) |-> LowerChar(str[i])]

\* The value of a digit character (either case), 99 when it is no digit.
DigitValue(ch) ==
  LET l == LowerChar(ch) IN
  IF \E i \in 1..16 : DigitChars[i] = l
  THEN (CHOOSE i \in 1..16 : DigitChars[i] = l) - 1
  ELSE 99

AllDigits(str, radix) ==
  Len(str) > 0 /\ \A i \in 1..Len(str) : DigitValue(str[i]) < radix

RECURSIVE DigitsToInt(_, _)
DigitsToInt(str, radix) ==
  IF Len(str) = 0 THEN 0
  ELSE DigitsToInt(SubSeq(str, 1, Len(str) - 1), radix) * radix
         + DigitValue(str[Len(str)])

Tail2(str) == SubSeq(str, 3, Len(str))

\* BigInt(string) (ECMAScript StringToBigInt): the empty string is 0n; a
\* 0x / 0o / 0b prefix (either case) selects the radix; otherwise decimal
\* digits with an optional sign; anything else is a SyntaxError.
BigIntOfString(str) ==
  IF Len(str) = 0 THEN [ok |-> TRUE, val |-> 0]
  ELSE IF Len(str) >= 2 /\ str[1] = "0" /\ LowerChar(str[2]) \in {"x", "o", "b"}
  THEN LET radix == CASE LowerChar(str[2]) = "x" -> 16
                      [] LowerChar(str[2]) = "o" -> 8
                      [] OTHER -> 2
       IN IF AllDigits(Tail2(str), radix)
          THEN [ok |-> TRUE, val |-> DigitsToInt(Tail2(str), radix)]
          ELSE [ok |-> FALSE, val |-> 0]
  ELSE IF str[1] \in {"+", "-"}
  THEN IF AllDigits(Tail(str), 10)
       THEN [ok |-> TRUE,
             val |-> IF str[1] = "-" THEN 0 - DigitsToInt(Tail(str), 10)
                     ELSE DigitsToInt(Tail(str), 10)]
       ELSE [ok |-> FALSE, val |-> 0]
  ELSE IF AllDigits(str, 10) THEN [ok |-> TRUE, val |-> DigitsToInt(str, 10)]
  ELSE [ok |-> FALSE, val |-> 0]

\* The comparisons of assertChainIdentity once the three strings are known:
\* "ok", or the error thrown.
CompareIdentity(got, cfg) ==
  LET chainHex == ToLowerCase(got.chain_id)
      chainNum == BigIntOfString(chainHex)
  IN IF ~chainNum.ok THEN "SyntaxError"
     ELSE IF chainNum.val # cfg.chainId THEN "ChainIdMismatch"
     ELSE IF ToLowerCase(got.network_id) # ToLowerCase(cfg.networkId)
     THEN "NetworkIdMismatch"
     ELSE IF ToLowerCase(got.genesis_hash) # ToLowerCase(cfg.genesisHashHex)
     THEN "GenesisHashMismatch"
     ELSE "ok"

NullIdentity == [chain_id |-> <<>>, network_id |-> <<>>, genesis_hash |-> <<>>]

\* The body of assertChainIdentity(rpc, cfg) up to `await rpc.getSyncInfo()`.
AssertChainIdentityCall(cfg) ==
  /\ idCfg' = cfg
  /\ idGot' = NullIdentity
  /\ idResult' = "pending"
  /\ idPc' = "getSyncInfo"
  /\ idCalled' = <<"catalyst_getSyncInfo">>
  /\ UNCHANGED idReported

\* assertChainIdentity(rpc, cfg) is invoked.
AssertChainIdentity ==
  /\ idPc = "start"
  /\ AssertChainIdentityCall(idCfg)
  /\ UNCHANGED nonIdVars

\* getSyncInfo answered: the three fields are taken from it and compared.
IdSyncInfoReply ==
  /\ idPc = "getSyncInfo"
  /\ idGot' = idReported
  /\ idResult' = CompareIdentity(idReported, idCfg)
  /\ idPc' = "done"
  /\ UNCHANGED <<idReported, idCfg, idCalled>>
  /\ UNCHANGED nonIdVars

\* getSyncInfo threw, or answered null so that reading si.chain_id threw
\* inside the try block: fall back to rpc.chainId().
IdSyncInfoFail ==
  /\ idPc = "getSyncInfo"
  /\ idPc' = "chainId"
  /\ idCalled' = Append(idCalled, "catalyst_chainId")
  /\ UNCHANGED <<idReported, idCfg, idGot, idResult>>
  /\ UNCHANGED nonIdVars

\* Mutant: after rpc.chainId() the genesis hash is asked for, not the network id.
IdChainIdReply_skipsNetworkId ==
  /\ idPc = "chainId"
  /\ idGot' = [idGot EXCEPT !.chain_id = idReported.chain_id]
  /\ idPc' = "genesisHash"
  /\ idCalled' = Append(idCalled, "catalyst_genesisHash")
  /\ UNCHANGED <<idReported, idCfg, idResult>>
  /\ UNCHANGED nonIdVars

\* rpc.chainId() answered; rpc.networkId() is called.
IdChainIdReply ==
  /\ idPc = "chainId"
  /\ idGot' = [idGot EXCEPT !.chain_id = idReported.chain_id]
  /\ idPc' = "networkId"
  /\ idCalled' = Append(idCalled, "catalyst_networkId")
  /\ UNCHANGED <<idReported, idCfg, idResult>>
  /\ UNCHANGED nonIdVars

\* rpc.networkId() answered; rpc.genesisHash() is called.
IdNetworkIdReply ==
  /\ idPc = "networkId"
  /\ idGot' = [idGot EXCEPT !.network_id = idReported.network_id]
  /\ idPc' = "genesisHash"
  /\ idCalled' = Append(idCalled, "catalyst_genesisHash")
  /\ UNCHANGED <<idReported, idCfg, idResult>>
  /\ UNCHANGED nonIdVars

\* rpc.genesisHash() answered: the three strings are compared.
IdGenesisHashReply ==
  /\ idPc = "genesisHash"
  /\ idGot' = [idGot EXCEPT !.genesis_hash = idReported.genesis_hash]
  /\ idResult' = CompareIdentity(idGot', idCfg)
  /\ idPc' = "done"
  /\ UNCHANGED <<idReported, idCfg, idCalled>>
  /\ UNCHANGED nonIdVars

\* One of the three fallback getters threw: assertChainIdentity rethrows.
IdGetterFail ==
  /\ idPc \in {"chainId", "networkId", "genesisHash"}
  /\ idResult' = "RpcError"
  /\ idPc' = "done"
  /\ UNCHANGED <<idReported, idCfg, idGot, idCalled>>
  /\ UNCHANGED nonIdVars

\* CATALYST_TESTNET.chainId
TestnetChainId == 200820092

IdChars == {"0", "1", "x", "X", "b"}
RECURSIVE StringsUpTo(_)
StringsUpTo(n) ==
  IF n = 0 THEN {<<>>}
  ELSE LET shorter == StringsUpTo(n - 1)
       IN shorter \cup {Append(str, ch) : str \in shorter, ch \in IdChars}

\* chain_id strings an endpoint may report: every short string over IdChars,
\* and the testnet's id in hex, upper-case hex and decimal, and "0x01".
ReportedChainIds ==
  StringsUpTo(MaxIdLen)
  \cup {<<"0", "x", "0", "1">>,
        <<"0", "x", "b", "f", "8", "4", "5", "7", "c">>,
        <<"0", "X", "B", "F", "8", "4", "5", "7", "C">>,
        <<"2", "0", "0", "8", "2", "0", "0", "9", "2">>}
ReportedNetworkIds == {<<"n", "e", "t">>, <<"N", "E", "T">>, <<"d", "e", "v">>}
ReportedGenesisHashes == {<<"0", "x", "a">>, <<"0", "x", "A">>, <<"0", "x", "b">>}
ExpectedConfigs ==
  [chainId : {1, 11, TestnetChainId},
   networkId : {<<"n", "e", "t">>, <<"N", "e", "t">>},
   genesisHashHex : {<<"0", "x", "a">>}]

IdInit ==
  /\ idReported \in [chain_id : ReportedChainIds, network_id : ReportedNetworkIds,
                     genesis_hash : ReportedGenesisHashes]
  /\ idCfg \in ExpectedConfigs
  /\ idPc = "start"
  /\ idGot = NullIdentity
  /\ idResult = "pending"
  /\ idCalled = <<>>

\* No identity check in progress.
IdUnused ==
  /\ idReported = NullIdentity
  /\ idCfg = [chainId |-> TestnetChainId, networkId |-> <<>>, genesisHashHex |-> <<>>]
  /\ idPc = "unused"
  /\ idGot = NullIdentity
  /\ idResult = "pending"
  /\ idCalled = <<>>

IdNext ==
  \/ AssertChainIdentity
  \/ IdSyncInfoReply
  \/ IdSyncInfoFail
  \/ IdChainIdReply
  \/ IdNetworkIdReply
  \/ IdGenesisHashReply
  \/ IdGetterFail

\* ------------------------------------------------ send, requestFaucetFunds
\* CATALYST_TESTNET, with the network id and the genesis hash abbreviated.
CatalystTestnet ==
  [chainId |-> TestnetChainId, networkId |-> <<"n", "e", "t">>,
   genesisHashHex |-> <<"0", "x", "a">>]

\* What the endpoint behind the RPC URL may report: the testnet (in another
\* letter case than the configuration), or a chain with another chain id.
EndpointIdentities ==
  {[chain_id |-> <<"0", "X", "B", "F", "8", "4", "5", "7", "C">>,
    network_id |-> <<"N", "E", "T">>, genesis_hash |-> <<"0", "x", "A">>],
   [chain_id |-> <<"0", "x", "0", "1">>,
    network_id |-> <<"n", "e", "t">>, genesis_hash |-> <<"0", "x", "a">>]}

\* Inputs of the send form: toHex (the own address, another address, or text
\* normalizeHex32 rejects) and amountStr.
Recipients == {"addrA", "addrB", "bad"}
Amounts == {0, 200}
\* Answers of catalyst_estimateFee and catalyst_getBalance.
FeeAnswers == {5}
BalanceAnswers == {100, 205}

NoTxError == [kind |-> "none", have |-> 0, need |-> 0]
TxError(kind) == [kind |-> kind, have |-> 0, need |-> 0]

\* No operation: the fields of a send / requestFaucetFunds invocation.
\* fee0 and balance0 are the fee and balance states the invocation's closure
\* captured; assertedOk .. broadcast record what the invocation did, reads
\* the committed nonces its faucet attempts read, sent the nonces of the
\* transactions it broadcast (each with the attempt that did it), lastErr
\* the attempt whose error lastErr holds.
NoOp ==
  [kind |-> "none", pc |-> "idle", to |-> "none", amount |-> 0,
   fee0 |-> Undefined, balance0 |-> Undefined,
   fees |-> Undefined, bal |-> Undefined, call |-> 0, attempt |-> 0,
   assertedOk |-> FALSE, allocCalled |-> FALSE, signed |-> FALSE,
   tracked |-> FALSE, broadcast |-> FALSE, thrown |-> NoTxError,
   reads |-> <<>>, sent |-> <<>>, lastErr |-> Undefined]

IdleCalls == {c \in Calls : callPc[c] = "idle"}
FreeCall == CHOOSE c \in IdleCalls : \A d \in IdleCalls : c <= d

\* A new operation can start: none is running, the bound on operations is
\* not reached, and `slots` allocateNonce invocations are left.
CanStartOp(slots) ==
  /\ op.pc \in {"idle", "done"}
  /\ idCaller = "none"
  /\ opCount < MaxOps
  /\ Cardinality(IdleCalls) >= slots

\* Mutant: the invocation relies on the cached chainOk flag.
IdentityPassed_cachedFlag == chainOk = "true"

\* `await ensureChainIdentityOk()` / `await assertChainIdentity(...)` returned
\* instead of throwing.
IdentityPassed == idResult = "ok"

\* Mutant: a self-transfer is charged like any other.
Required_alwaysAmount(to, amount, fees) == amount + fees

\* const required = to === addressHex ? fees : amount + fees;
Required(to, amount, fees) == IF to = AddressHex THEN fees ELSE amount + fees

\* The assertChainIdentity invocation was awaited: its locals are gone.
IdentityReturned ==
  /\ idPc' = "unused"
  /\ idGot' = NullIdentity
  /\ idResult' = "pending"
  /\ idCalled' = <<>>
  /\ UNCHANGED <<idReported, idCfg>>

\* The try block threw: catch { setSendError / setFaucetError } and
\* finally { setSendBusy(false) / setFaucetBusy(false) }.
OpThrow(o, err) ==
  /\ op' = [o EXCEPT !.pc = "done", !.thrown = err]
  /\ sendBusy' = IF o.kind = "send" THEN FALSE ELSE sendBusy
  /\ faucetBusy' = IF o.kind = "faucet" THEN FALSE ELSE faucetBusy

OpContinue(o) ==
  /\ op' = o
  /\ UNCHANGED <<sendBusy, faucetBusy>>

\* `await allocateNonce(sender)` is reached.
OpAllocate(o, sender) ==
  /\ AllocateNonceCall(FreeCall, sender)
  /\ OpContinue([o EXCEPT !.pc = "allocate", !.call = FreeCall, !.allocCalled = TRUE])

\* send: the balance preflight, then allocateNonce.
SendPreflight(o) ==
  LET required == Required(o.to, o.amount, o.fees) IN
  IF o.bal < required
  THEN /\ OpThrow(o, [kind |-> "InsufficientBalance", have |-> o.bal, need |-> required])
       /\ UNCHANGED <<lockVars, callVars>>
  ELSE OpAllocate(o, AddressHex)

\* send: `const bal = balance ?? (await rpc.getBalance(addressHex))`.
SendAfterFees(o) ==
  IF o.balance0 # Undefined
  THEN SendPreflight([o EXCEPT !.bal = o.balance0])
  ELSE /\ OpContinue([o EXCEPT !.pc = "getBalance"])
       /\ UNCHANGED <<lockVars, callVars>>

\* Mutant: the error of the first failed attempt is the one kept.
FaucetAttemptFailed_firstError(o, err) ==
  LET kept == IF o.lastErr = Undefined THEN o.attempt ELSE o.lastErr IN
  IF o.attempt >= 1
  THEN OpThrow([o EXCEPT !.lastErr = kept], err)
  ELSE OpContinue([o EXCEPT !.lastErr = kept, !.attempt = 1, !.pc = "faucetGetNonce"])

\* requestFaucetFunds: one attempt of the retry loop threw: lastErr = e, and
\* the loop goes on to the second attempt or ends and lastErr is thrown.
FaucetAttemptFailed(o, err) ==
  IF o.attempt >= 1
  THEN OpThrow([o EXCEPT !.lastErr = o.attempt], err)
  ELSE OpContinue([o EXCEPT !.lastErr = o.attempt, !.attempt = 1, !.pc = "faucetGetNonce"])

\* verifyChain() up to its first await (run on load, on RPC change, and by
\* the retry button).
VerifyChain ==
  /\ idCaller = "none"
  /\ chainOk' = "null"
  /\ idCaller' = "verifyChain"
  /\ AssertChainIdentityCall(CatalystTestnet)
  /\ UNCHANGED <<fee, txs, sendBusy, faucetBusy, op, opCount, broadcasts>>
  /\ UNCHANGED <<allocVars, rpcVars, extVars, accountVars>>

\* verifyChain() after assertChainIdentity returned or threw.
VerifyChainDone ==
  /\ idCaller = "verifyChain"
  /\ idPc = "done"
  /\ chainOk' = IF idResult = "ok" THEN "true" ELSE "false"
  /\ idCaller' = "none"
  /\ IdentityReturned
  /\ UNCHANGED <<fee, txs, sendBusy, faucetBusy, op, opCount, broadcasts>>
  /\ UNCHANGED <<allocVars, rpcVars, extVars, accountVars>>

\* send() up to the first await of assertChainIdentity.
Send(to, amount) ==
  /\ ~sendBusy
  /\ CanStartOp(1)
  /\ sendBusy' = TRUE
  /\ op' = [NoOp EXCEPT !.kind = "send", !.pc = "identity", !.to = to,
                        !.amount = amount, !.fee0 = fee, !.balance0 = balance]
  /\ opCount' = opCount + 1
  /\ idCaller' = "op"
  /\ AssertChainIdentityCall(CatalystTestnet)
  /\ UNCHANGED <<chainOk, fee, txs, faucetBusy, broadcasts>>
  /\ UNCHANGED <<allocVars, rpcVars, extVars, accountVars>>

\* requestFaucetFunds() up to the first await of assertChainIdentity.
RequestFaucetFunds(amount) ==
  /\ CanStartOp(2)
  /\ faucetBusy' = TRUE
  /\ op' = [NoOp EXCEPT !.kind = "faucet", !.pc = "identity", !.to = AddressHex,
                        !.amount = amount]
  /\ opCount' = opCount + 1
  /\ idCaller' = "op"
  /\ AssertChainIdentityCall(CatalystTestnet)
  /\ UNCHANGED <<chainOk, fee, txs, sendBusy, broadcasts>>
  /\ UNCHANGED <<allocVars, rpcVars, extVars, accountVars>>

\* assertChainIdentity returned or threw: setChainOk(true) and the code up
\* to the next await (estimateFee, getBalance or allocateNonce), or the throw.
OpIdentityDone ==
  /\ op.pc = "identity"
  /\ idCaller = "op"
  /\ idPc = "done"
  /\ idCaller' = "none"
  /\ LET o == [op EXCEPT !.assertedOk = (idResult = "ok")] IN
     IF IdentityPassed
     THEN /\ chainOk' = "true"
          /\ IF o.to = "bad"
             THEN OpThrow(o, TxError("InvalidHex")) /\ UNCHANGED <<lockVars, callVars>>
             ELSE IF o.amount <= 0
             THEN OpThrow(o, TxError("AmountNotPositive")) /\ UNCHANGED <<lockVars, callVars>>
             ELSE IF o.kind = "send" /\ o.fee0 # Undefined
             THEN SendAfterFees([o EXCEPT !.fees = o.fee0])
             ELSE OpContinue([o EXCEPT !.pc = "estimateFee"]) /\ UNCHANGED <<lockVars, callVars>>
     ELSE /\ OpThrow(o, TxError(idResult))
          /\ UNCHANGED <<chainOk, lockVars, callVars>>
  /\ IdentityReturned
  /\ UNCHANGED <<fee, txs, opCount, broadcasts>>
  /\ UNCHANGED <<mapVars, chainVars, rpcVars, extVars, accountVars>>

\* rpc.estimateFee answered.
OpEstimateFeeReply ==
  /\ op.pc = "estimateFee"
  /\ \E f \in FeeAnswers :
       LET o == [op EXCEPT !.fees = f] IN
       IF o.kind = "send"
       THEN SendAfterFees(o)
       ELSE OpContinue([o EXCEPT !.pc = "faucetGetNonce"]) /\ UNCHANGED <<lockVars, callVars>>
  /\ UNCHANGED <<chainOk, fee, txs, opCount, idCaller, broadcasts>>
  /\ UNCHANGED <<mapVars, chainVars, rpcVars, extVars, accountVars, idVars>>

\* rpc.getBalance answered.
OpGetBalanceReply ==
  /\ op.pc = "getBalance"
  /\ SendPreflight([op EXCEPT !.bal = chainBalance])
  /\ UNCHANGED <<chainOk, fee, txs, opCount, idCaller, broadcasts>>
  /\ UNCHANGED <<mapVars, chainVars, rpcVars, extVars, accountVars, idVars>>

\* rpc.estimateFee or rpc.getBalance threw.
OpRpcFail ==
  /\ op.pc \in {"estimateFee", "getBalance"}
  /\ OpThrow(op, TxError("RpcError"))
  /\ UNCHANGED <<chainOk, fee, txs, opCount, idCaller, broadcasts>>
  /\ UNCHANGED <<allocVars, rpcVars, extVars, accountVars, idVars>>

\* requestFaucetFunds: rpc.getNonce(faucetAddressHex) answered; the floor is
\* bumped and allocateNonce is reached.
FaucetGetNonceReply ==
  /\ op.pc = "faucetGetNonce"
  /\ BumpNextNonceFloor(FaucetAddressHex, committedNonce[FaucetAddressHex])
  /\ OpAllocate([op EXCEPT !.reads = Append(@, [attempt |-> op.attempt,
                                                nonce |-> committedNonce[FaucetAddressHex]])],
                FaucetAddressHex)
  /\ UNCHANGED <<chainOk, fee, txs, opCount, idCaller, broadcasts>>
  /\ UNCHANGED <<chainVars, rpcVars, extVars, accountVars, idVars>>

\* requestFaucetFunds: rpc.getNonce(faucetAddressHex) threw.
FaucetGetNonceFail ==
  /\ op.pc = "faucetGetNonce"
  /\ FaucetAttemptFailed(op, TxError("RpcError"))
  /\ UNCHANGED <<chainOk, fee, txs, opCount, idCaller, broadcasts>>
  /\ UNCHANGED <<allocVars, rpcVars, extVars, accountVars, idVars>>

\* The transaction an invocation builds: its txIdHex stands for sender and nonce.
BuiltTx(o) == [from |-> callSender[o.call], nonce |-> callResult[o.call]]

\* allocateNonce returned: buildAndSignTransferTxV1, setTxs (the record is
\* prepended), and rpc.sendRawTransaction is invoked.
OpAllocateReturned ==
  /\ op.pc = "allocate"
  /\ callPc[op.call] = "returned"
  /\ txs' = <<[localTxId |-> BuiltTx(op),
               status |-> IF op.kind = "send" THEN "none" ELSE "pending",
               rpcTxId |-> FALSE]>> \o txs
  /\ broadcasts' = Append(broadcasts, BuiltTx(op))
  /\ OpContinue([op EXCEPT !.pc = "broadcast", !.signed = TRUE, !.tracked = TRUE,
                           !.broadcast = TRUE,
                           !.sent = Append(@, [attempt |-> op.attempt,
                                               nonce |-> callResult[op.call]])])
  /\ UNCHANGED <<chainOk, fee, opCount, idCaller>>
  /\ UNCHANGED <<allocVars, rpcVars, extVars, accountVars, idVars>>

\* allocateNonce threw (its getNonce failed).
OpAllocateThrown ==
  /\ op.pc = "allocate"
  /\ callPc[op.call] = "thrown"
  /\ IF op.kind = "send" THEN OpThrow(op, TxError("RpcError"))
     ELSE FaucetAttemptFailed(op, TxError("RpcError"))
  /\ UNCHANGED <<chainOk, fee, txs, opCount, idCaller, broadcasts>>
  /\ UNCHANGED <<allocVars, rpcVars, extVars, accountVars, idVars>>

\* rpc.sendRawTransaction answered: the record gets rpcTxId and "pending".
OpBroadcastReply ==
  /\ op.pc = "broadcast"
  /\ txs' = [i \in 1..Len(txs) |->
               IF txs[i].localTxId = BuiltTx(op)
               THEN [txs[i] EXCEPT !.rpcTxId = TRUE, !.status = "pending"]
               ELSE txs[i]]
  /\ op' = [op EXCEPT !.pc = "done"]
  /\ sendBusy' = IF op.kind = "send" THEN FALSE ELSE sendBusy
  /\ faucetBusy' = IF op.kind = "faucet" THEN FALSE ELSE faucetBusy
  /\ UNCHANGED <<chainOk, fee, opCount, idCaller, broadcasts>>
  /\ UNCHANGED <<allocVars, rpcVars, extVars, accountVars, idVars>>

\* rpc.sendRawTransaction threw.
OpBroadcastFail ==
  /\ op.pc = "broadcast"
  /\ IF op.kind = "send" THEN OpThrow(op, TxError("RpcError"))
     ELSE FaucetAttemptFailed(op, TxError("RpcError"))
  /\ UNCHANGED <<chainOk, fee, txs, opCount, idCaller, broadcasts>>
  /\ UNCHANGED <<allocVars, rpcVars, extVars, accountVars, idVars>>

\* estimateFee() (the Estimate button) with a valid form: rpc.estimateFee
\* answered and setFee(f). With an invalid form, or a failing RPC, it throws
\* and changes no state kept here.
EstimateFee(to, amount) ==
  /\ to # "bad"
  /\ amount > 0
  /\ \E f \in FeeAnswers : fee' = f
  /\ UNCHANGED <<chainOk, txs, sendBusy, faucetBusy, op, opCount, idCaller, broadcasts>>
  /\ UNCHANGED <<allocVars, rpcVars, extVars, accountVars, idVars>>

\* The node behind the RPC URL is replaced, or the client failed over to a
\* URL that serves another chain.
EndpointChanges ==
  /\ \E r \in EndpointIdentities \ {idReported} : idReported' = r
  /\ UNCHANGED <<idCfg, idPc, idGot, idResult, idCalled>>
  /\ UNCHANGED <<allocVars, rpcVars, extVars, accountVars, sendVars>>

AccountInit(b) ==
  /\ balance = Undefined
  /\ chainBalance = b

\* The wallet is unlocked with account addressHex; nothing was sent.
SendIdle ==
  /\ chainOk = "null"
  /\ fee = Undefined
  /\ txs = <<>>
  /\ sendBusy = FALSE
  /\ faucetBusy = FALSE
  /\ op = NoOp
  /\ opCount = 0
  /\ idCaller = "none"
  /\ broadcasts = <<>>

SendNext ==
  \/ VerifyChain
  \/ VerifyChainDone
  \/ \E to \in Recipients, amount \in Amounts : Send(to, amount)
  \/ \E amount \in Amounts : RequestFaucetFunds(amount)
  \/ IdSyncInfoReply
  \/ IdSyncInfoFail
  \/ IdChainIdReply
  \/ IdNetworkIdReply
  \/ IdGenesisHashReply
  \/ IdGetterFail
  \/ OpIdentityDone
  \/ OpEstimateFeeReply
  \/ OpGetBalanceReply
  \/ OpRpcFail
  \/ FaucetGetNonceReply
  \/ FaucetGetNonceFail
  \/ \E c \in Calls : AllocEnter(c)
  \/ \E c \in Calls : AllocGetNonceReply(c)
  \/ \E c \in Calls : AllocGetNonceFail(c)
  \/ OpAllocateReturned
  \/ OpAllocateThrown
  \/ OpBroadcastReply
  \/ OpBroadcastFail
  \/ \E to \in Recipients, amount \in Amounts : EstimateFee(to, amount)
  \/ RefreshAccount
  \/ EndpointChanges

\* ------------------------------------------------------------ wallet model
RECURSIVE Repeat(_, _)
Repeat(str, n) == IF n = 0 THEN <<>> ELSE str \o Repeat(str, n - 1)

\* /^[0-9a-f]+$/.test(h)
IsLowerHex(h) == AllDigits(h, 16) /\ ToLowerCase(h) = h

\* normalizeHex32(hex): the canonical string, or <<>> when it throws.
NormalizeHex32(hex) ==
  IF ~(Len(hex) >= 2 /\ hex[1] = "0" /\ hex[2] = "x") THEN <<>>
  ELSE LET h == ToLowerCase(Tail2(hex)) IN
       IF ~IsLowerHex(h) THEN <<>>
       ELSE IF Len(h) # 64 THEN <<>>
       ELSE <<"0", "x">> \o h

\* validatePrivateKeyHex(hex)
ValidatePrivateKeyHex(hex) == NormalizeHex32(hex)

\* isValidMnemonic: the BIP39 library's check.
Mnemonics == {"abandon about", "zoo wrong", "not a mnemonic"}
IsValidMnemonic(m) == m \in {"abandon about", "zoo wrong"}
Passphrases == {"", "TREZOR"}

\* mnemonicToSeed(mnemonic, passphrase): the 64-byte BIP39 seed, a function
\* of both.
MnemonicToSeed(m, pp) == <<"seed", m, pp>>

\* deriveAccountPrivkeyHexV1({seed64, accountIndex}): the first 32 bytes of
\* BLAKE2b-512(DST_ACCOUNT || BLAKE2b-512(DST_MASTER || seed) || u32le(index)),
\* a function of seed and index.
DeriveAccountPrivkeyHexV1(seed64, accountIndex) ==
  <<"priv">> \o seed64 \o <<ToString(accountIndex)>>

\* pubkeyFromPrivkeyHex(privkeyHex): the address of a key, one-to-one; for a
\* key written in hex it is a lower-case hex string of the same length.
PubkeyFromPrivkeyHex(privkeyHex) ==
  IF Len(privkeyHex) >= 2 /\ privkeyHex[1] = "0" /\ privkeyHex[2] = "x"
  THEN <<"0", "x">> \o [i \in 1..(Len(privkeyHex) - 2) |->
                          DigitChars[((DigitValue(privkeyHex[i + 2]) + 1) % 16) + 1]]
  ELSE <<"pub">> \o privkeyHex

\* deriveAccountAddressHexV1({seed64, accountIndex})
DeriveAccountAddressHexV1(seed64, accountIndex) ==
  PubkeyFromPrivkeyHex(DeriveAccountPrivkeyHexV1(seed64, accountIndex))

\* A missing mnemonic or passphrase field, a missing privateKeyHex field,
\* and a missing wallet.
Absent == "(undefined)"
NoKey == <<>>
NoWallet ==
  [version |-> 0, kind |-> "none", selectedAccountId |-> 0, accounts |-> <<>>,
   mnemonic |-> Absent, passphrase |-> Absent, privateKeyHex |-> NoKey,
   nextAccountIndex |-> Undefined]

\* The function threw: the value held stays.
WalletThrow(err) ==
  /\ walletThrown' = err
  /\ UNCHANGED <<walletData, nextAcctId>>

\* The function returned wallet w, having drawn `ids` random ids.
WalletReturn(w, ids) ==
  /\ walletData' = w
  /\ walletThrown' = "none"
  /\ nextAcctId' = nextAcctId + ids

\* createMnemonicWalletV2({mnemonic, passphrase, initialAccounts})
MnemonicWalletV2(m, pp, initialAccounts) ==
  LET seed64 == MnemonicToSeed(m, pp)
      accounts == [i \in 1..initialAccounts |->
                     [id |-> nextAcctId + i - 1,
                      addressHex |-> DeriveAccountAddressHexV1(seed64, i - 1),
                      accountIndex |-> i - 1]]
  IN [version |-> 2, kind |-> "mnemonic_v1", selectedAccountId |-> accounts[1].id,
      accounts |-> accounts, mnemonic |-> m, passphrase |-> pp,
      privateKeyHex |-> NoKey, nextAccountIndex |-> initialAccounts]

CreateMnemonicWalletV2(m, pp, initialAccounts) ==
  /\ walletData = NoWallet
  /\ IF initialAccounts < 1 THEN WalletThrow("initialAccounts must be >= 1")
     ELSE IF ~IsValidMnemonic(m) THEN WalletThrow("Invalid BIP39 mnemonic")
     ELSE WalletReturn(MnemonicWalletV2(m, pp, initialAccounts), initialAccounts)
  /\ walletOp' = "create"
  /\ UNCHANGED walletInput
  /\ UNCHANGED <<coreVars, nonWalletExt>>

\* createPrivateKeyWalletV2({privateKeyHex})
PrivateKeyWalletV2(hex) ==
  LET privateKeyHex == ValidatePrivateKeyHex(hex) IN
  [version |-> 2, kind |-> "private_key_v1", selectedAccountId |-> nextAcctId,
   accounts |-> <<[id |-> nextAcctId,
                   addressHex |-> PubkeyFromPrivkeyHex(privateKeyHex),
                   accountIndex |-> Undefined]>>,
   mnemonic |-> Absent, passphrase |-> Absent, privateKeyHex |-> privateKeyHex,
   nextAccountIndex |-> Undefined]

CreatePrivateKeyWalletV2(hex) ==
  /\ walletData = NoWallet
  /\ IF ValidatePrivateKeyHex(hex) = <<>> THEN WalletThrow("Invalid hex")
     ELSE WalletReturn(PrivateKeyWalletV2(hex), 1)
  /\ walletOp' = "create"
  /\ UNCHANGED walletInput
  /\ UNCHANGED <<coreVars, nonWalletExt>>

\* Mutant: a version 2 payload is returned without ensureAccountsNonEmpty.
ParseWalletDataAny_noEnsure(payload) ==
  /\ walletData = NoWallet
  /\ IF payload.type # "object" THEN WalletThrow("Invalid wallet payload")
     ELSE IF payload.data.version = 2
     THEN WalletReturn(payload.data, 0)
     ELSE IF payload.data.privateKeyHex # NoKey
     THEN IF ValidatePrivateKeyHex(payload.data.privateKeyHex) = <<>>
          THEN WalletThrow("Invalid hex")
          ELSE WalletReturn(PrivateKeyWalletV2(payload.data.privateKeyHex), 1)
     ELSE WalletThrow("Unknown wallet payload version")
  /\ walletOp' = "parse"
  /\ walletInput' = payload
  /\ UNCHANGED <<coreVars, nonWalletExt>>

\* parseWalletDataAny(payload): a payload is its JavaScript type, whether it
\* has an accounts array, and its fields.
ParseWalletDataAny(payload) ==
  /\ walletData = NoWallet
  /\ IF payload.type # "object" THEN WalletThrow("Invalid wallet payload")
     ELSE IF payload.data.version = 2
     THEN IF ~payload.hasAccounts THEN WalletThrow("TypeError")
          ELSE IF Len(payload.data.accounts) = 0 THEN WalletThrow("Wallet has no accounts")
          ELSE WalletReturn(payload.data, 0)
     ELSE IF payload.data.privateKeyHex # NoKey
     THEN IF ValidatePrivateKeyHex(payload.data.privateKeyHex) = <<>>
          THEN WalletThrow("Invalid hex")
          ELSE WalletReturn(PrivateKeyWalletV2(payload.data.privateKeyHex), 1)
     ELSE WalletThrow("Unknown wallet payload version")
  /\ walletOp' = "parse"
  /\ walletInput' = payload
  /\ UNCHANGED <<coreVars, nonWalletExt>>

HasAccount(data, accountId) ==
  \E i \in 1..Len(data.accounts) : data.accounts[i].id = accountId

\* selectAccount(data, accountId)
SelectAccount(accountId) ==
  /\ walletData # NoWallet
  /\ IF ~HasAccount(walletData, accountId) THEN WalletThrow("Unknown account")
     ELSE WalletReturn([walletData EXCEPT !.selectedAccountId = accountId], 0)
  /\ walletOp' = "select"
  /\ UNCHANGED walletInput
  /\ UNCHANGED <<coreVars, nonWalletExt>>

\* data.passphrase ?? ""
PassphraseOf(data) == IF data.passphrase = Absent THEN "" ELSE data.passphrase

\* !data.mnemonic
MissingMnemonic(data) == data.mnemonic = Absent \/ data.mnemonic = ""

\* data.nextAccountIndex ?? data.accounts.length
NextIndexOf(data) ==
  IF data.nextAccountIndex = Undefined THEN Len(data.accounts)
  ELSE data.nextAccountIndex

\* addAccount(data)
AddAccount ==
  /\ walletData # NoWallet
  /\ Len(walletData.accounts) < MaxAccounts
  /\ IF walletData.kind # "mnemonic_v1"
     THEN WalletThrow("Can only add accounts to mnemonic wallets")
     ELSE IF MissingMnemonic(walletData) THEN WalletThrow("Missing mnemonic")
     ELSE IF ~IsValidMnemonic(walletData.mnemonic) THEN WalletThrow("Invalid BIP39 mnemonic")
     ELSE LET seed64 == MnemonicToSeed(walletData.mnemonic, PassphraseOf(walletData))
              idx == NextIndexOf(walletData)
              acct == [id |-> nextAcctId,
                       addressHex |-> DeriveAccountAddressHexV1(seed64, idx),
                       accountIndex |-> idx]
          IN IF idx < 0 THEN WalletThrow("account_index must be u32")
             ELSE WalletReturn([walletData EXCEPT !.accounts = Append(@, acct),
                                                  !.selectedAccountId = acct.id,
                                                  !.nextAccountIndex = idx + 1], 1)
  /\ walletOp' = "add"
  /\ UNCHANGED walletInput
  /\ UNCHANGED <<coreVars, nonWalletExt>>

\* A key that getPrivateKeyHexForAccount did not return: it threw.
KeyError == <<"Error">>

\* getPrivateKeyHexForAccount(data, accountId)
GetPrivateKeyHexForAccount(data, accountId) ==
  IF ~HasAccount(data, accountId) THEN KeyError
  ELSE LET acct == data.accounts[CHOOSE i \in 1..Len(data.accounts) :
                                   /\ data.accounts[i].id = accountId
                                   /\ \A j \in 1..(i - 1) : data.accounts[j].id # accountId]
       IN IF data.kind = "private_key_v1"
          THEN IF data.privateKeyHex = NoKey THEN KeyError ELSE data.privateKeyHex
          ELSE IF data.kind = "mnemonic_v1"
          THEN IF MissingMnemonic(data) THEN KeyError
               ELSE IF acct.accountIndex = Undefined THEN KeyError
               ELSE IF ~IsValidMnemonic(data.mnemonic) THEN KeyError
               ELSE IF acct.accountIndex < 0 THEN KeyError
               ELSE DeriveAccountPrivkeyHexV1(
                      MnemonicToSeed(data.mnemonic, PassphraseOf(data)), acct.accountIndex)
          ELSE KeyError

\* Private keys given as text: canonical, upper case, too short, no prefix.
KeyLower == <<"0", "x">> \o Repeat(<<"1", "1">>, 32)
KeyUpper == <<"0", "x">> \o Repeat(<<"A", "B">>, 32)
KeyShort == <<"0", "x", "1", "1">>
KeyNoPrefix == Repeat(<<"1", "1">>, 33)
PrivateKeyInputs == {KeyLower, KeyUpper, KeyShort, KeyNoPrefix}

\* Accounts as a stored payload may list them (ids 101.. are the payload's).
PayloadAccount(id, m, pp, index) ==
  [id |-> id, addressHex |-> DeriveAccountAddressHexV1(MnemonicToSeed(m, pp), index),
   accountIndex |-> index]
PayloadKeyAccount(id, key) ==
  [id |-> id, addressHex |-> PubkeyFromPrivkeyHex(key), accountIndex |-> Undefined]

MnemonicPayload(accounts, selected, next) ==
  [version |-> 2, kind |-> "mnemonic_v1", selectedAccountId |-> selected,
   accounts |-> accounts, mnemonic |-> "abandon about", passphrase |-> "",
   privateKeyHex |-> NoKey, nextAccountIndex |-> next]
KeyPayload(version, accounts, selected, key) ==
  [version |-> version, kind |-> "private_key_v1", selectedAccountId |-> selected,
   accounts |-> accounts, mnemonic |-> Absent, passphrase |-> Absent,
   privateKeyHex |-> key, nextAccountIndex |-> Undefined]
\* A legacy payload { privateKeyHex } (version -1: no version field).
LegacyPayload(version, key) ==
  [NoWallet EXCEPT !.version = version, !.privateKeyHex = key]

\* Version 2 payloads: as the wallet writes them, and with fields a wallet
\* never writes (no account, a selected id that is no account, two accounts
\* with one key, a repeated or too large account index, a foreign address).
Version2Payloads ==
  {MnemonicPayload(<<PayloadAccount(101, "abandon about", "", 0),
                     PayloadAccount(102, "abandon about", "", 1)>>, 102, 2),
   KeyPayload(2, <<PayloadKeyAccount(101, KeyLower)>>, 101, KeyLower),
   MnemonicPayload(<<>>, 101, 0),
   MnemonicPayload(<<PayloadAccount(101, "abandon about", "", 0)>>, 109, 1),
   KeyPayload(2, <<PayloadKeyAccount(101, KeyLower), PayloadKeyAccount(102, KeyLower)>>,
              101, KeyLower),
   MnemonicPayload(<<PayloadAccount(101, "abandon about", "", 0),
                     PayloadAccount(102, "abandon about", "", 0)>>, 101, 2),
   MnemonicPayload(<<PayloadAccount(101, "abandon about", "", 1)>>, 101, 1),
   MnemonicPayload(<<PayloadAccount(101, "zoo wrong", "", 0)>>, 101, 1),
   MnemonicPayload(<<PayloadAccount(101, "abandon about", "", 0),
                     PayloadAccount(102, "abandon about", "", 5)>>, 101, Undefined),
   [MnemonicPayload(<<PayloadAccount(101, "abandon about", "", 0)>>, 101, 1)
      EXCEPT !.mnemonic = Absent]}

\* What parseWalletDataAny may be given: version 2 objects (one of them
\* without an accounts array), legacy objects, objects of another shape, and
\* values that are no object.
WalletPayloads ==
  {[type |-> "object", hasAccounts |-> TRUE, data |-> d] : d \in Version2Payloads}
  \cup {[type |-> "object", hasAccounts |-> FALSE, data |-> MnemonicPayload(<<>>, 101, 0)]}
  \cup {[type |-> "object", hasAccounts |-> FALSE, data |-> LegacyPayload(v, k)] :
          v \in {-1, 1}, k \in PrivateKeyInputs}
  \cup {[type |-> "object", hasAccounts |-> FALSE, data |-> LegacyPayload(v, NoKey)] :
          v \in {-1, 3}}
  \cup {[type |-> t, hasAccounts |-> FALSE, data |-> NoWallet] : t \in {"null", "string"}}

\* ---------------------------------------------------------------------
\* The vault (wallet-core vault.ts).
\* ---------------------------------------------------------------------

\* const N = 1 << 15
ScryptN == 32768

\* b.toString(16).padStart(2, "0")
ByteToHex(b) == <<DigitChars[(b \div 16) + 1], DigitChars[(b % 16) + 1]>>

\* Mutant: no padStart, a byte below 16 gives one character.
BytesToHex_noPad(bytes) ==
  LET RECURSIVE Go(_)
      Go(bs) == IF bs = <<>> THEN <<>>
                ELSE (IF bs[1] < 16 THEN <<DigitChars[bs[1] + 1]>> ELSE ByteToHex(bs[1]))
                       \o Go(Tail(bs))
  IN <<"0", "x">> \o Go(bytes)

\* bytesToHex(bytes)
BytesToHex(bytes) ==
  LET RECURSIVE Go(_)
      Go(bs) == IF bs = <<>> THEN <<>> ELSE ByteToHex(bs[1]) \o Go(Tail(bs))
  IN <<"0", "x">> \o Go(bytes)

\* Number.parseInt(two characters, 16) stored in a Uint8Array: the longest
\* prefix of hex digits; NaN is stored as 0.
ParseHexByte(c1, c2) ==
  IF DigitValue(c1) > 15 THEN 0
  ELSE IF DigitValue(c2) > 15 THEN DigitValue(c1)
  ELSE DigitValue(c1) * 16 + DigitValue(c2)

\* hexToBytes(hex): the bytes, or HexError when it throws.
HexError == <<-1>>
HexToBytes(hex) ==
  IF ~(Len(hex) >= 2 /\ hex[1] = "0" /\ hex[2] = "x") THEN HexError
  ELSE LET h == Tail2(hex) IN
       IF Len(h) % 2 # 0 THEN HexError
       ELSE [i \in 1..(Len(h) \div 2) |-> ParseHexByte(h[2 * i - 1], h[2 * i])]

\* new TextEncoder().encode(password), for the characters passwords use.
PasswordBytes(password) == [i \in 1..Len(password) |-> IF password[i] = "a" THEN 97 ELSE 98]

\* deriveKeyScrypt: scrypt as an ideal key derivation, its key determined by
\* exactly the password bytes, the salt and the cost parameters.
DeriveKeyScrypt(password, salt, N, r, p) == <<PasswordBytes(password), salt, N, r, p>>

SumBytes(bytes) ==
  LET RECURSIVE Go(_)
      Go(bs) == IF bs = <<>> THEN 0 ELSE bs[1] + Go(Tail(bs))
  IN Go(bytes)

\* xchacha20poly1305(key, nonce) as an ideal AEAD: the ciphertext is the
\* masked plaintext followed by a 16-byte tag, and two different (key, nonce)
\* pairs never give the same tag (the tag spells out the password bytes, the
\* first salt and nonce bytes and the cost parameters).
AeadMask(key, nonce) == (SumBytes(key[2]) + SumBytes(nonce) + SumBytes(key[1]) + 1) % 256
AeadTag(key, nonce, body) ==
  LET pw == key[1] IN
  <<Len(pw), IF Len(pw) > 0 THEN pw[1] ELSE 0, IF Len(pw) > 1 THEN pw[2] ELSE 0,
    key[2][1], nonce[1], (key[3] \div 256) % 256, key[4] % 256, key[5] % 256,
    SumBytes(body) % 256>> \o Repeat(<<0>>, 7)
AeadEncrypt(key, nonce, plaintext) ==
  LET body == [i \in 1..Len(plaintext) |-> (plaintext[i] + AeadMask(key, nonce)) % 256]
  IN body \o AeadTag(key, nonce, body)
\* aead.decrypt(ciphertext): the plaintext, or AeadError when the tag is wrong.
AeadError == <<-2>>
AeadDecrypt(key, nonce, ciphertext) ==
  IF Len(ciphertext) < 16 THEN AeadError
  ELSE LET body == SubSeq(ciphertext, 1, Len(ciphertext) - 16)
           tag == SubSeq(ciphertext, Len(ciphertext) - 15, Len(ciphertext)) IN
       IF tag # AeadTag(key, nonce, body) THEN AeadError
       ELSE [i \in 1..Len(body) |-> (body[i] + 256 - AeadMask(key, nonce)) % 256]

NoRecord == [version |-> 0]
NotOpened == <<-3>>
NoVaultArgs == [created |-> FALSE, password |-> <<>>, plaintext |-> <<>>, tried |-> <<>>]

\* createVaultV1({password, plaintext}); salt and nonce are the random bytes
\* crypto.getRandomValues gives.
CreateVaultV1(password, plaintext, salt, nonce) ==
  /\ vaultRecord = NoRecord
  /\ LET N == ScryptN
         key == DeriveKeyScrypt(password, salt, N, 8, 1)
         ciphertext == AeadEncrypt(key, nonce, plaintext) IN
     vaultRecord' =
       [version |-> 1,
        kdf |-> [name |-> "scrypt", N |-> N, r |-> 8, p |-> 1, saltHex |-> BytesToHex(salt)],
        cipher |-> [name |-> "xchacha20-poly1305", nonceHex |-> BytesToHex(nonce)],
        ciphertextHex |-> BytesToHex(ciphertext)]
  /\ vaultArgs' = [created |-> TRUE, password |-> password, plaintext |-> plaintext,
                   tried |-> <<>>]
  /\ vaultOpened' = NotOpened
  /\ vaultThrown' = "none"
  /\ UNCHANGED <<coreVars, nonVaultExt>>

\* A record read back from storage that createVaultV1 did not write.
LoadVault(record) ==
  /\ vaultRecord = NoRecord
  /\ vaultRecord' = record
  /\ vaultArgs' = NoVaultArgs
  /\ vaultOpened' = NotOpened
  /\ vaultThrown' = "none"
  /\ UNCHANGED <<coreVars, nonVaultExt>>

\* What openVaultV1 gives for a record: [thrown, opened].
OpenResult(password, record) ==
  IF record.version # 1 THEN [thrown |-> "Unsupported vault version", opened |-> NotOpened]
  ELSE IF record.kdf.name # "scrypt" THEN [thrown |-> "Unsupported KDF", opened |-> NotOpened]
  ELSE IF record.cipher.name # "xchacha20-poly1305"
  THEN [thrown |-> "Unsupported cipher", opened |-> NotOpened]
  ELSE LET salt == HexToBytes(record.kdf.saltHex)
           nonce == HexToBytes(record.cipher.nonceHex)
           ciphertext == HexToBytes(record.ciphertextHex) IN
       IF HexError \in {salt, nonce, ciphertext}
       THEN [thrown |-> "Invalid hex", opened |-> NotOpened]
       ELSE LET key == DeriveKeyScrypt(password, salt, record.kdf.N, record.kdf.r,
                                       record.kdf.p)
                plaintext == AeadDecrypt(key, nonce, ciphertext) IN
            IF plaintext = AeadError THEN [thrown |-> "invalid tag", opened |-> NotOpened]
            ELSE [thrown |-> "none", opened |-> plaintext]

\* openVaultV1({password, record})
OpenVaultV1(password) ==
  /\ vaultRecord # NoRecord
  /\ vaultOpened' = OpenResult(password, vaultRecord).opened
  /\ vaultThrown' = OpenResult(password, vaultRecord).thrown
  /\ vaultArgs' = [vaultArgs EXCEPT !.tried = password]
  /\ UNCHANGED <<vaultRecord, coreVars, nonVaultExt>>

Passwords == {<<>>, <<"a">>, <<"b">>, <<"a", "b">>}
PlainBytes == {0, 15, 16, 255}
Plaintexts == UNION {[1..n -> PlainBytes] : n \in 0..MaxPlainLen}
Salts == {Repeat(<<0>>, 16), <<9>> \o Repeat(<<171>>, 15)}
Nonces == {Repeat(<<255>>, 24), <<1>> \o Repeat(<<16>>, 23)}
ForeignRecords ==
  LET r == [version |-> 1,
            kdf |-> [name |-> "scrypt", N |-> ScryptN, r |-> 8, p |-> 1,
                     saltHex |-> BytesToHex(Repeat(<<0>>, 16))],
            cipher |-> [name |-> "xchacha20-poly1305",
                        nonceHex |-> BytesToHex(Repeat(<<255>>, 24))],
            ciphertextHex |-> <<"0", "x", "a">>] IN
  {r, [r EXCEPT !.version = 2], [r EXCEPT !.kdf.name = "pbkdf2"],
   [r EXCEPT !.cipher.name = "aes-gcm"], [r EXCEPT !.ciphertextHex = <<"0", "x">>]}

VaultUnused ==
  /\ vaultRecord = NoRecord
  /\ vaultOpened = NotOpened
  /\ vaultThrown = "none"
  /\ vaultArgs = NoVaultArgs

VaultNext ==
  \/ \E password \in Passwords, plaintext \in Plaintexts, salt \in Salts, nonce \in Nonces :
       CreateVaultV1(password, plaintext, salt, nonce)
  \/ \E record \in ForeignRecords : LoadVault(record)
  \/ \E password \in Passwords : OpenVaultV1(password)

\* ---------------------------------------------------------------------
\* The transaction codec (catalyst-sdk encoding.ts, hex.ts, tx.ts).
\* A bigint or number is [neg, mag]: its sign and the base-256 digits of its
\* magnitude, least significant first, without leading zeros (64-bit values
\* do not fit TLC's integers). A function that throws gives Thrown.
\* ---------------------------------------------------------------------

Thrown == <<-9>>

RECURSIVE Digits(_)
Digits(n) == IF n = 0 THEN <<>> ELSE <<n % 256>> \o Digits(n \div 256)
Big(n) == [neg |-> n < 0, mag |-> Digits(IF n < 0 THEN -n ELSE n)]
BigOf(neg, mag) == [neg |-> neg, mag |-> mag]
\* Mutant: the sender's amount is not negated.
Negate_identity(v) == v

\* -v
Negate(v) == IF v.mag = <<>> THEN v ELSE [v EXCEPT !.neg = ~v.neg]

\* concatBytes(...parts); an argument that throws makes the call throw.
RECURSIVE ConcatBytes(_)
ConcatBytes(parts) ==
  IF parts = <<>> THEN <<>>
  ELSE IF parts[1] = Thrown THEN Thrown
  ELSE LET rest == ConcatBytes(Tail(parts)) IN
       IF rest = Thrown THEN Thrown ELSE parts[1] \o rest

\* for (i = 0; i < n; i++) { out[i] = Number(x & 0xff); x >>= 8 }
RECURSIVE LowBytes(_, _)
LowBytes(mag, n) ==
  IF n = 0 THEN <<>>
  ELSE <<IF mag = <<>> THEN 0 ELSE mag[1]>>
         \o LowBytes(IF mag = <<>> THEN <<>> ELSE Tail(mag), n - 1)

\* u8(v)
U8(v) == IF v < 0 \/ v > 255 THEN Thrown ELSE <<v>>

\* u32le(v)
U32le(v) == IF v.neg \/ Len(v.mag) > 4 THEN Thrown ELSE LowBytes(v.mag, 4)

\* Mutant: u64le keeps the low 8 bytes of a value that is out of range.
U64le_truncating(v) == LowBytes(v.mag, 8)

\* u64le(v)
U64le(v) == IF v.neg \/ Len(v.mag) > 8 THEN Thrown ELSE LowBytes(v.mag, 8)

\* (1n << 64n) + v for a negative v of magnitude at most 2^63: the digits of
\* 2^64 - mag.
RECURSIVE Complement(_, _)
Complement(bytes, borrow) ==
  IF bytes = <<>> THEN <<>>
  ELSE LET d == 256 - bytes[1] - borrow IN
       <<d % 256>> \o Complement(Tail(bytes), IF bytes[1] + borrow > 0 THEN 1 ELSE 0)
StripZeros(bytes) ==
  LET nz == {i \in 1..Len(bytes) : bytes[i] # 0} IN
  IF nz = {} THEN <<>> ELSE SubSeq(bytes, 1, CHOOSE i \in nz : \A j \in nz : j <= i)

\* v > (1n << 63n) - 1n, v < -(1n << 63n)
AboveI64(v) == ~v.neg /\ (Len(v.mag) > 8 \/ (Len(v.mag) = 8 /\ v.mag[8] >= 128))
BelowI64(v) ==
  v.neg /\ (Len(v.mag) > 8
            \/ (Len(v.mag) = 8
                /\ (v.mag[8] > 128 \/ (v.mag[8] = 128 /\ \E i \in 1..7 : v.mag[i] # 0))))

\* i64le(v)
I64le(v) ==
  IF BelowI64(v) \/ AboveI64(v) THEN Thrown
  ELSE LET u == IF v.neg THEN BigOf(FALSE, StripZeros(Complement(LowBytes(v.mag, 8), 0)))
                ELSE v
       IN U64le(u)

\* vec(items), bytesVec(bytes)
Vec(items) == ConcatBytes(<<U32le(Big(Len(items)))>> \o items)
BytesVec(bytes) == ConcatBytes(<<U32le(Big(Len(bytes))), bytes>>)

\* bytesToHex(bytes) of hex.ts: "0x", then two digits for each byte.
SdkBytesToHex(bytes) ==
  <<"0", "x">> \o [i \in 1..(2 * Len(bytes)) |-> ByteToHex(bytes[(i + 1) \div 2])[2 - (i % 2)]]

\* hexToBytes(hex) of hex.ts
SdkHexToBytes(hex) ==
  LET h == Tail2(hex) IN
  IF Len(h) % 2 # 0 THEN Thrown
  ELSE IF \E i \in 1..(Len(h) \div 2) : DigitValue(h[2 * i - 1]) > 15 THEN Thrown
  ELSE [i \in 1..(Len(h) \div 2) |-> ParseHexByte(h[2 * i - 1], h[2 * i])]

\* hexToBytes(normalizeHex32(hex))
Hex32Bytes(hex) ==
  LET normalized == NormalizeHex32(hex) IN
  IF normalized = <<>> THEN Thrown ELSE SdkHexToBytes(normalized)

TX_WIRE_MAGIC_V1 == <<67, 84, 88, 49>>
TX_SIG_DOMAIN_V1 == <<67, 65, 84, 65, 76, 89, 83, 84, 95, 83, 73, 71, 95, 86, 49>>

\* serializeEntry(e), with serializeEntryAmountNonConfidential and txTypeTag
SerializeEntry(e) ==
  LET pk == Hex32Bytes(e.publicKeyHex) IN
  IF pk # Thrown /\ Len(pk) # 32 THEN Thrown
  ELSE ConcatBytes(<<pk, ConcatBytes(<<U8(0), I64le(e.amount)>>)>>)

\* serializeCoreV1(core)
SerializeCoreV1(core) ==
  IF Len(core.data) > 60 THEN Thrown
  ELSE ConcatBytes(<<U8(0),
                     Vec([i \in 1..Len(core.entries) |-> SerializeEntry(core.entries[i])]),
                     U64le(core.nonce),
                     U32le(core.lockTime),
                     U64le(core.fees),
                     BytesVec(core.data)>>)

\* Mutant: the signature is written without its length prefix.
SerializeTxV1_noLength(tx) ==
  IF Len(tx.signature) # 64 THEN Thrown
  ELSE ConcatBytes(<<SerializeCoreV1(tx.core), tx.signature, U64le(tx.timestamp)>>)

\* serializeTxV1(tx)
SerializeTxV1(tx) ==
  IF Len(tx.signature) # 64 THEN Thrown
  ELSE ConcatBytes(<<SerializeCoreV1(tx.core), BytesVec(tx.signature), U64le(tx.timestamp)>>)

\* encodeWireTxV1(tx)
EncodeWireTxV1(tx) == ConcatBytes(<<TX_WIRE_MAGIC_V1, SerializeTxV1(tx)>>)

\* Mutant: the id is the hash of the serialized transaction without the
\* wire magic.
TxIdV1_noMagic(tx) ==
  LET body == SerializeTxV1(tx) IN
  IF body = Thrown THEN Thrown ELSE <<"0x", "blake2b-512[0..32]", body>>

\* txIdV1(tx): blake2b-512 (an ideal hash) of the wire bytes, its first 32
\* bytes as hex.
TxIdV1(tx) ==
  LET wire == EncodeWireTxV1(tx) IN
  IF wire = Thrown THEN Thrown ELSE <<"0x", "blake2b-512[0..32]", wire>>

\* Mutant: the chain id is left out of the signing payload.
SigningPayloadV1_noChainId(core, timestamp, chainId, genesisHashHex) ==
  ConcatBytes(<<TX_SIG_DOMAIN_V1, Hex32Bytes(genesisHashHex),
                SerializeCoreV1(core), U64le(timestamp)>>)

\* signingPayloadV1({core, timestamp, chainId, genesisHashHex})
SigningPayloadV1(core, timestamp, chainId, genesisHashHex) ==
  ConcatBytes(<<TX_SIG_DOMAIN_V1, U64le(chainId), Hex32Bytes(genesisHashHex),
                SerializeCoreV1(core), U64le(timestamp)>>)

\* The calls recorded so far; a call's record holds its arguments and what
\* it returned (Thrown when it threw).
NoRuns == <<>>
\* No tracked record was made.
NoLocalTxId == <<>>

\* One call each of encodeWireTxV1(tx), txIdV1(tx) and signingPayloadV1 with
\* tx's core and timestamp.
EncodeTx(tx, chainId, genesisHashHex) ==
  /\ Len(txRuns) < MaxRuns
  /\ txRuns' = Append(txRuns,
       [op |-> "encode", tx |-> tx, chainId |-> chainId, genesisHashHex |-> genesisHashHex,
        amount |-> Big(0), to |-> <<>>, privkeyHex |-> <<>>, nonce |-> Big(0),
        wire |-> EncodeWireTxV1(tx),
        txId |-> TxIdV1(tx),
        payload |-> SigningPayloadV1(tx.core, tx.timestamp, chainId, genesisHashHex)])
  /\ UNCHANGED <<coreVars, nonTxExt>>

\* What buildAndSignTransferTxV1(args) returns, as the record of the call;
\* sig is what signSchnorrRistretto returned (its nonce is random) and
\* `signed` what it was called with.
BuildResult(args, sig) ==
  LET fromPubkeyHex == PubkeyFromPrivkeyHex(args.privkeyHex)
      toHex == NormalizeHex32(args.toPubkeyHex)
      core == [entries |-> <<[publicKeyHex |-> fromPubkeyHex, amount |-> Negate(args.amount)],
                             [publicKeyHex |-> toHex, amount |-> args.amount]>>,
               nonce |-> args.noncePlusOne, lockTime |-> args.lockTimeSeconds,
               fees |-> args.fees, data |-> <<>>]
      payload == IF toHex = <<>> THEN Thrown
                 ELSE SigningPayloadV1(core, args.timestampMs, args.chainId,
                                       args.genesisHashHex)
      tx == [core |-> core, signature |-> sig, timestamp |-> args.timestampMs]
      wire == IF payload = Thrown THEN Thrown ELSE EncodeWireTxV1(tx)
  IN [op |-> "build",
      tx |-> IF wire # Thrown THEN tx ELSE [tx EXCEPT !.signature = Thrown],
      chainId |-> args.chainId, genesisHashHex |-> args.genesisHashHex,
      amount |-> args.amount, to |-> args.toPubkeyHex,
      privkeyHex |-> args.privkeyHex, nonce |-> args.noncePlusOne,
      wire |-> wire,
      txId |-> IF wire = Thrown THEN Thrown ELSE TxIdV1(tx),
      payload |-> IF wire = Thrown THEN Thrown ELSE payload,
      signed |-> [privkeyHex |-> args.privkeyHex, timestamp |-> args.timestampMs,
                  message |-> payload, signature |-> sig],
      wireHex |-> IF wire = Thrown THEN Thrown ELSE SdkBytesToHex(wire),
      localTxId |-> NoLocalTxId]

\* buildAndSignTransferTxV1(args)
BuildAndSignTransferTxV1(args, sig) ==
  /\ Len(txRuns) < MaxRuns
  /\ txRuns' = Append(txRuns, BuildResult(args, sig))
  /\ UNCHANGED <<coreVars, nonTxExt>>

\* send (App.tsx 682-695): const built = buildAndSignTransferTxV1({...});
\* const localTxId = built.txIdHex; setTxs((prev) => [{localTxId, ...}, ...prev]).
\* When the builder throws no record is tracked.
SendBuilds(args, sig) ==
  /\ Len(txRuns) < MaxRuns
  /\ LET built == BuildResult(args, sig)
     IN txRuns' = Append(txRuns,
          [built EXCEPT !.op = "send",
                        !.localTxId = IF built.wire = Thrown THEN NoLocalTxId
                                      ELSE built.txId])
  /\ UNCHANGED <<coreVars, nonTxExt>>

Pk1 == <<"0", "x">> \o Repeat(<<"0", "1">>, 32)
Pk2 == <<"0", "x">> \o Repeat(<<"0", "2">>, 32)
PkUpper == <<"0", "x">> \o Repeat(<<"A", "b">>, 32)
TwoTo63 == Repeat(<<0>>, 7) \o <<128>>
TwoTo64 == Repeat(<<0>>, 8) \o <<1>>
MaxU64 == Repeat(<<255>>, 8)
VectorTimestamp == BigOf(FALSE, <<0, 104, 229, 207, 139, 1>>)

\* The core of the test vectors, and other cores that serialize.
VectorCore ==
  [entries |-> <<[publicKeyHex |-> Pk1, amount |-> Big(-7)],
                 [publicKeyHex |-> Pk2, amount |-> Big(7)]>>,
   nonce |-> Big(1), lockTime |-> Big(0), fees |-> Big(3), data |-> <<>>]
GoodCores ==
  {VectorCore,
   [entries |-> <<[publicKeyHex |-> PkUpper,
                   amount |-> BigOf(FALSE, Repeat(<<255>>, 7) \o <<127>>)]>>,
    nonce |-> BigOf(FALSE, MaxU64), lockTime |-> BigOf(FALSE, Repeat(<<255>>, 4)),
    fees |-> Big(0), data |-> <<1, 2, 3>>],
   [entries |-> <<>>, nonce |-> Big(0), lockTime |-> Big(258), fees |-> Big(65536),
    data |-> Repeat(<<7>>, 60)],
   [VectorCore EXCEPT !.entries = <<[publicKeyHex |-> Pk2, amount |-> BigOf(TRUE, TwoTo63)]>>]}
\* Cores that do not: a value out of range, data too long, a short key.
BadCores ==
  {[VectorCore EXCEPT !.entries = <<[publicKeyHex |-> Pk1, amount |-> BigOf(FALSE, TwoTo63)]>>],
   [VectorCore EXCEPT !.entries = <<[publicKeyHex |-> KeyShort, amount |-> Big(7)]>>],
   [VectorCore EXCEPT !.nonce = BigOf(FALSE, TwoTo64)],
   [VectorCore EXCEPT !.lockTime = BigOf(FALSE, Repeat(<<0>>, 4) \o <<1>>)],
   [VectorCore EXCEPT !.fees = Big(-1)],
   [VectorCore EXCEPT !.data = Repeat(<<7>>, 61)]}
Signatures == {Repeat(<<0>>, 64), Repeat(<<170>>, 64)}
\* A signature with the timestamp it is made at.
SignedAt == {<<Repeat(<<0>>, 64), VectorTimestamp>>, <<Repeat(<<170>>, 64), Big(0)>>}
ChainIds == {Big(31337), Big(TestnetChainId)}
GenesisHashes == {<<"0", "x">> \o Repeat(<<"0", "0">>, 32), <<"0", "x">> \o Repeat(<<"e", "E">>, 32)}

\* What the encoders are applied to.
EncodeInputs ==
  {[tx |-> [core |-> c, signature |-> st[1], timestamp |-> st[2]],
    chainId |-> ch, genesisHashHex |-> g] :
     c \in GoodCores, st \in SignedAt, ch \in ChainIds, g \in GenesisHashes}
  \cup {[tx |-> [core |-> c, signature |-> Repeat(<<0>>, 64), timestamp |-> Big(0)],
         chainId |-> Big(31337), genesisHashHex |-> Pk1] : c \in BadCores}
  \cup {[tx |-> [core |-> VectorCore, signature |-> sg, timestamp |-> t],
         chainId |-> ch, genesisHashHex |-> g] :
          sg \in {Repeat(<<0>>, 63)}, t \in {BigOf(FALSE, TwoTo64)},
          ch \in {Big(-1)}, g \in {KeyShort}}

\* A recipient with the nonce allocated for the transfer to it: the sender
\* itself, another address, one in upper case, a malformed one.
TransferTargets ==
  {<<PubkeyFromPrivkeyHex(KeyLower), Big(1)>>, <<Pk2, Big(5)>>,
   <<PkUpper, BigOf(FALSE, MaxU64)>>, <<KeyShort, Big(1)>>}

\* What buildAndSignTransferTxV1 is called with: the recipients above;
\* amounts below, at and above zero.
BuildInputs ==
  {[privkeyHex |-> KeyLower, toPubkeyHex |-> t[1], amount |-> amount, noncePlusOne |-> t[2],
    fees |-> Big(3), lockTimeSeconds |-> Big(0), timestampMs |-> VectorTimestamp,
    chainId |-> Big(TestnetChainId),
    genesisHashHex |-> <<"0", "x">> \o Repeat(<<"0", "0">>, 32)] :
     t \in TransferTargets,
     amount \in {Big(-5), Big(0), Big(7), BigOf(FALSE, TwoTo63)}}

\* What send calls the builder with: its amount is positive (App.tsx 657).
\* and its recipient is normalizeHex32(toHex.trim()) (App.tsx 655).
SendInputs ==
  {[args EXCEPT !.toPubkeyHex = NormalizeHex32(@)] :
     args \in {a \in BuildInputs : a.amount = Big(7) /\ NormalizeHex32(a.toPubkeyHex) # <<>>}}

\* One call of u8, u32le, u64le or i64le on a value by itself; the record
\* keeps the value as amount and the bytes returned as wire.
EncodeScalar(encoder, v) ==
  /\ Len(txRuns) < MaxRuns
  /\ txRuns' = Append(txRuns,
       [op |-> encoder,
        tx |-> [core |-> VectorCore, signature |-> Repeat(<<0>>, 64), timestamp |-> Big(0)],
        chainId |-> Big(0), genesisHashHex |-> <<>>,
        amount |-> v, to |-> <<>>, privkeyHex |-> <<>>, nonce |-> Big(0),
        wire |-> CASE encoder = "u8" ->
                        U8((IF v.neg THEN -1 ELSE 1)
                           * (LowBytes(v.mag, 2)[1] + 256 * LowBytes(v.mag, 2)[2]))
                   [] encoder = "u32le" -> U32le(v)
                   [] encoder = "u64le" -> U64le(v)
                   [] encoder = "i64le" -> I64le(v),
        txId |-> Thrown, payload |-> Thrown])
  /\ UNCHANGED <<coreVars, nonTxExt>>

\* Values at, inside and just outside each encoder's range.
ScalarInputs ==
  ({"u8"} \X {Big(-1), Big(0), Big(7), Big(255), Big(256)})
  \cup ({"u32le"} \X {Big(-1), Big(0), Big(258), BigOf(FALSE, Repeat(<<255>>, 4)),
                      BigOf(FALSE, Repeat(<<0>>, 4) \o <<1>>)})
  \cup ({"u64le"} \X {Big(-1), Big(0), Big(258), BigOf(FALSE, Repeat(<<255>>, 7) \o <<127>>),
                      BigOf(FALSE, MaxU64), BigOf(FALSE, TwoTo64)})
  \cup ({"i64le"} \X {Big(0), Big(7), Big(-1), Big(-7), Big(-256),
                      BigOf(FALSE, Repeat(<<255>>, 7) \o <<127>>), BigOf(FALSE, TwoTo63),
                      BigOf(TRUE, TwoTo63), BigOf(TRUE, <<1>> \o Repeat(<<0>>, 6) \o <<128>>),
                      BigOf(TRUE, TwoTo64)})

TxUnused == txRuns = NoRuns

TxNext ==
  \/ \E i \in EncodeInputs : EncodeTx(i.tx, i.chainId, i.genesisHashHex)
  \/ \E args \in BuildInputs, sig \in Signatures : BuildAndSignTransferTxV1(args, sig)
  \/ \E args \in SendInputs, sig \in Signatures : SendBuilds(args, sig)
  \/ \E i \in ScalarInputs : EncodeScalar(i[1], i[2])

\* ---------------------------------------------------------------------
\* The wallet application and its localStorage (wallet-web App.tsx).
\* An address is the number of its account; a value written to storage is
\* described by the fields it holds in the clear and those it holds only
\* inside the vault's ciphertext.
\* ---------------------------------------------------------------------

NoAddress == 0
NoUiWallet == [kind |-> "none", accounts |-> 0, selected |-> 0, password |-> "none"]
NoVault == [present |-> FALSE, password |-> "none", payload |-> NoUiWallet]
NoList == [present |-> FALSE, list |-> <<>>]
AppPasswords == {"pw1", "pw2"}

\* The fields of JSON.stringify(walletData).
WalletFields(wd) ==
  {"version", "kind", "name", "selectedAccountId", "accounts.addressHex"}
    \cup (IF wd.kind = "mnemonic_v1"
          THEN {"mnemonic", "passphrase", "nextAccountIndex"} ELSE {"privateKeyHex"})

\* The fields of the VaultRecordV1 createVaultV1 makes of a plaintext: salt,
\* nonce and parameters in the clear, the plaintext's fields in ciphertextHex.
VaultFields(plainFields) ==
  [key |-> "LS_VAULT", clear |-> {"version", "kdf", "saltHex", "nonceHex", "ciphertextHex"},
   sealed |-> plainFields]

\* Mutant: the wallet JSON is stored without createVaultV1.
WriteVault_plaintext(wd, password) ==
  /\ lsVault' = [present |-> TRUE, password |-> password,
                 payload |-> [wd EXCEPT !.password = "none"]]
  /\ lsWritten' = lsWritten \cup {[key |-> "LS_VAULT", clear |-> WalletFields(wd), sealed |-> {}]}

\* writeVault(createVaultV1({password, plaintext: utf8ToBytes(JSON.stringify(wd))}))
WriteVault(wd, password) ==
  /\ lsVault' = [present |-> TRUE, password |-> password,
                 payload |-> [wd EXCEPT !.password = "none"]]
  /\ lsWritten' = lsWritten \cup {VaultFields(WalletFields(wd))}

\* The dependencies of the render now committed.
CurrentDeps == [wallet |-> uiWallet, address |-> uiAddress, txs |-> uiTxs]
\* No effect is waiting to run.
Quiescent == uiDeps = CurrentDeps

\* completeOnboardingCreate / completeOnboardingRestore / completeOnboardingImport
CompleteOnboarding(kind, password) ==
  /\ Quiescent /\ ~lsVault.present
  /\ WriteVault([kind |-> kind, accounts |-> 1, selected |-> 1, password |-> "none"], password)
  /\ UNCHANGED <<lsTxs, uiWallet, uiAddress, uiTxs, uiDeps, uiNextTx>>
  /\ UNCHANGED <<coreVars, nonAppExt>>

\* unlock(): openVaultV1 throws for another password.
Unlock(password) ==
  /\ Quiescent /\ lsVault.present /\ uiWallet = NoUiWallet
  /\ uiWallet' = IF password = lsVault.password
                 THEN [lsVault.payload EXCEPT !.password = password] ELSE uiWallet
  /\ UNCHANGED <<lsVault, lsTxs, lsWritten, uiAddress, uiTxs, uiDeps, uiNextTx>>
  /\ UNCHANGED <<coreVars, nonAppExt>>

\* lock()
Lock ==
  /\ Quiescent /\ uiWallet # NoUiWallet
  /\ uiWallet' = NoUiWallet
  /\ uiAddress' = NoAddress
  /\ uiTxs' = <<>>
  /\ UNCHANGED <<lsVault, lsTxs, lsWritten, uiDeps, uiNextTx>>
  /\ UNCHANGED <<coreVars, nonAppExt>>

\* persistWallet(updated) and the setters that follow it in switchAccount and
\* addNewAccount.
PersistAndSelect(updated) ==
  /\ WriteVault(updated, uiWallet.password)
  /\ uiWallet' = updated
  /\ uiAddress' = updated.selected
  /\ UNCHANGED <<lsTxs, uiTxs, uiDeps, uiNextTx>>

\* switchAccount(accountId)
SwitchAccount(account) ==
  /\ Quiescent /\ uiWallet # NoUiWallet
  /\ account \in 1..uiWallet.accounts
  /\ PersistAndSelect([uiWallet EXCEPT !.selected = account])
  /\ UNCHANGED <<coreVars, nonAppExt>>

\* addNewAccount(); addAccount throws for a private-key wallet.
AddNewAccount ==
  /\ Quiescent /\ uiWallet # NoUiWallet
  /\ uiWallet.accounts < MaxAccounts
  /\ IF uiWallet.kind = "mnemonic_v1"
     THEN PersistAndSelect([uiWallet EXCEPT !.accounts = @ + 1, !.selected = uiWallet.accounts + 1])
     ELSE UNCHANGED appVars
  /\ UNCHANGED <<coreVars, nonAppExt>>

\* send(): setTxs((prev) => [{localTxId, createdAtMs}, ...prev]); `from` notes
\* the address selected when the transaction was recorded.
RecordSend ==
  /\ Quiescent /\ uiWallet # NoUiWallet /\ uiAddress # NoAddress
  /\ uiNextTx <= MaxTracked
  /\ uiTxs' = <<[localTxId |-> uiNextTx, from |-> uiAddress]>> \o uiTxs
  /\ uiNextTx' = uiNextTx + 1
  /\ UNCHANGED <<lsVault, lsTxs, lsWritten, uiWallet, uiAddress, uiDeps>>
  /\ UNCHANGED <<coreVars, nonAppExt>>

\* refreshHistory(): setHistory(list), which the history effect persists with
\* writeJson(chainHistoryStorageKey, history.slice(0, 50)).
RefreshHistory ==
  /\ Quiescent /\ uiAddress # NoAddress
  /\ lsWritten' = lsWritten \cup {[key |-> "LS_CHAIN_HISTORY",
                                    clear |-> {"RpcTransactionSummary"}, sealed |-> {}]}
  /\ UNCHANGED <<lsVault, lsTxs, uiWallet, uiAddress, uiTxs, uiDeps, uiNextTx>>
  /\ UNCHANGED <<coreVars, nonAppExt>>

\* Mutant: the whole list is written.
Bounded_whole(list) == list

\* bounded = txs.slice(0, 50)
StoredLimit == 50
Bounded(list) == SubSeq(list, 1, IF Len(list) < StoredLimit THEN Len(list) ELSE StoredLimit)

\* One commit: the effects whose dependencies changed run in source order
\* with the state of this render, and the state they set is the next render.
\* walletData effect: select the wallet's account. Load effect: setTxs(stored
\* list) when the address changed and a list is stored. Persist effect:
\* writeJson(txsStorageKey, txs.slice(0, 50)) when txs or the key changed.
RunEffects ==
  /\ ~Quiescent
  /\ LET walletRuns == uiWallet # uiDeps.wallet /\ uiWallet # NoUiWallet
         addressChanged == uiAddress # uiDeps.address
         loadRuns == addressChanged /\ uiAddress # NoAddress
         persistRuns == (uiTxs # uiDeps.txs \/ addressChanged) /\ uiAddress # NoAddress
     IN /\ uiAddress' = IF walletRuns THEN uiWallet.selected ELSE uiAddress
        /\ uiTxs' = IF loadRuns /\ lsTxs[uiAddress].present THEN lsTxs[uiAddress].list
                    ELSE uiTxs
        /\ lsTxs' = IF persistRuns
                    THEN [lsTxs EXCEPT ![uiAddress] = [present |-> TRUE, list |-> Bounded(uiTxs)]]
                    ELSE lsTxs
        /\ lsWritten' = IF persistRuns
                        THEN lsWritten \cup
                               {[key |-> "LS_TXS",
                                 clear |-> IF uiTxs = <<>> THEN {}
                                           ELSE {"localTxId", "createdAtMs", "rpcTxId", "status"},
                                 sealed |-> {}]}
                        ELSE lsWritten
  /\ uiDeps' = CurrentDeps
  /\ UNCHANGED <<lsVault, uiWallet, uiNextTx>>
  /\ UNCHANGED <<coreVars, nonAppExt>>

\* The page as it loads: nothing stored but the RPC URL, locked.
AppUnused ==
  /\ lsVault = NoVault
  /\ lsTxs = [a \in 1..MaxAccounts |-> NoList]
  /\ lsWritten = {[key |-> "LS_RPC_URL", clear |-> {"rpcBaseUrl"}, sealed |-> {}]}
  /\ uiWallet = NoUiWallet
  /\ uiAddress = NoAddress
  /\ uiTxs = <<>>
  /\ uiDeps = [wallet |-> NoUiWallet, address |-> NoAddress, txs |-> <<>>]
  /\ uiNextTx = 1

\* The page as a returning user loads it: a vault with one account, and the
\* list an earlier session stored for it, one entry short of the limit
\* (older transactions have ids below 1).
AppReturning ==
  /\ lsVault = [present |-> TRUE, password |-> "pw1",
                payload |-> [kind |-> "mnemonic_v1", accounts |-> 1, selected |-> 1,
                             password |-> "none"]]
  /\ lsTxs = [a \in 1..MaxAccounts |->
               IF a = 1
               THEN [present |-> TRUE,
                     list |-> [i \in 1..(StoredLimit - 1) |-> [localTxId |-> 1 - i, from |-> 1]]]
               ELSE NoList]
  /\ lsWritten = {[key |-> "LS_RPC_URL", clear |-> {"rpcBaseUrl"}, sealed |-> {}]}
  /\ uiWallet = NoUiWallet
  /\ uiAddress = NoAddress
  /\ uiTxs = <<>>
  /\ uiDeps = [wallet |-> NoUiWallet, address |-> NoAddress, txs |-> <<>>]
  /\ uiNextTx = 1

AppNext ==
  \/ \E kind \in {"mnemonic_v1", "private_key_v1"}, password \in AppPasswords :
       CompleteOnboarding(kind, password)
  \/ \E password \in AppPasswords : Unlock(password)
  \/ Lock
  \/ \E account \in 1..MaxAccounts : SwitchAccount(account)
  \/ AddNewAccount
  \/ RecordSend
  \/ RefreshHistory
  \/ RunEffects

\* ---------------------------------------------------------------------
\* Receipt polling (wallet-web App.tsx): one tick of the 2.5 s interval.
\* The tick's i-th getTransactionReceipt is call i of the RPC client.
\* ---------------------------------------------------------------------

NoTick == -1

\* The interval fires: pending = txs.filter(...); nothing to do when empty.
PollTick(pending) ==
  /\ pollPending = NoTick
  /\ pollPending' = IF pending = 0 THEN NoTick ELSE pending
  /\ UNCHANGED <<coreVars, nonPollExt>>

\* for (const t of pending) { await rpc.getTransactionReceipt(id) ... }: the
\* request for entry i is made once the one for entry i - 1 returned or threw
\* (the catch ignores it). getTransactionReceipt is call(method, [txid]) with
\* the default allowFailover.
GetTransactionReceipt(i) ==
  /\ pollPending # NoTick /\ i <= pollPending
  /\ i > 1 => rpcCalls[i - 1].pc \in {"returned", "thrown"}
  /\ RpcCall(i, TRUE)

PollUnused == pollPending = NoTick

PollNext ==
  \/ \E pending \in 0..MaxRpcCalls : PollTick(pending)
  \/ \E i \in RpcCalls : GetTransactionReceipt(i)
  \/ \E c \in RpcCalls : RpcFetchOk(c)
  \/ \E c \in RpcCalls, o \in FetchOutcomes : RpcFetchFail(c, o)

\* ---------------------------------------------------------------------
\* The tracked list and the receipt polling loop (wallet-web App.tsx), with
\* the wallet unlocked. An entry is {localTxId, rpcTxId?, status?,
\* lastReceipt?}; a receipt is written as its status, null as "null". The
\* observed variables describe the step just taken.
\* ---------------------------------------------------------------------

NoRpcTxId == 0
\* The id the node answers sendRawTransaction with, for local id n.
ServerId(n) == MaxTracked + n
ErrorReceipt == "{error: message}"
ReceiptAnswers == {"null", "pending", "applied", "dropped"}
ReceiptErrors == {"RpcTimeoutError", "Error"}
Ticks == 1..MaxTicks

IdleTick == [pc |-> "idle", pending |-> <<>>, at |-> 0]
NoQuery == [tick |-> 0, localTxId |-> 0, status |-> Absent, rpcTxId |-> NoRpcTxId, id |-> 0]
NoReply == [via |-> "none", localTxId |-> 0, outcome |-> "none", left |-> 0]
NoEntry == [localTxId |-> 0, rpcTxId |-> NoRpcTxId, status |-> Absent, lastReceipt |-> Absent]

\* t.rpcTxId ?? t.localTxId
IdOf(t) == IF t.rpcTxId # NoRpcTxId THEN t.rpcTxId ELSE t.localTxId

\* (t.rpcTxId ?? t.localTxId) && t.status !== "applied" && t.status !== "dropped"
IsPending(t) == IdOf(t) # 0 /\ t.status # "applied" /\ t.status # "dropped"

\* getTransactionReceipt(id) called by `tick` (0: checkTxNow) for entry t.
QueryFor(tick, t) ==
  [tick |-> tick, localTxId |-> t.localTxId, status |-> t.status, rpcTxId |-> t.rpcTxId,
   id |-> IdOf(t)]

\* The entry of the list with this local id.
EntryOf(localTxId) ==
  IF \E i \in 1..Len(trkTxs) : trkTxs[i].localTxId = localTxId
  THEN trkTxs[CHOOSE i \in 1..Len(trkTxs) : trkTxs[i].localTxId = localTxId]
  ELSE NoEntry

\* prev.map((x) => x.localTxId === localTxId ? {...x, status, lastReceipt} : x)
SetReceipt(localTxId, status, lastReceipt) ==
  [i \in 1..Len(trkTxs) |->
     IF trkTxs[i].localTxId = localTxId
     THEN [trkTxs[i] EXCEPT !.status = status, !.lastReceipt = lastReceipt]
     ELSE trkTxs[i]]

\* send (App.tsx 694-695) and requestFaucetFunds (776-777) put the new
\* transaction first, the faucet's with status "pending".
TrackNewTx(status) ==
  /\ Len(trkTxs) < MaxTracked
  /\ trkTxs' = <<[localTxId |-> Len(trkTxs) + 1, rpcTxId |-> NoRpcTxId, status |-> status,
                  lastReceipt |-> Absent]>> \o trkTxs
  /\ trkQuery' = NoQuery /\ trkLast' = NoReply /\ trkTriggered' = {}
  /\ UNCHANGED trkTicks
  /\ UNCHANGED <<coreVars, nonTrackExt>>

\* sendRawTransaction answered (App.tsx 697-700, 779-782): the entry gets the
\* server's id and the status "pending". A broadcast that fails leaves the
\* list alone.
TrackBroadcastOk(localTxId) ==
  /\ \E i \in 1..Len(trkTxs) :
       trkTxs[i].localTxId = localTxId /\ trkTxs[i].rpcTxId = NoRpcTxId
  /\ trkTxs' = [i \in 1..Len(trkTxs) |->
                  IF trkTxs[i].localTxId = localTxId
                  THEN [trkTxs[i] EXCEPT !.rpcTxId = ServerId(localTxId),
                                         !.status = "pending"]
                  ELSE trkTxs[i]]
  /\ trkQuery' = NoQuery /\ trkLast' = NoReply /\ trkTriggered' = {}
  /\ UNCHANGED trkTicks
  /\ UNCHANGED <<coreVars, nonTrackExt>>

\* The interval fires (App.tsx 813-818): pending = txs.filter(...); return if
\* it is empty, else the loop's first getTransactionReceipt is awaited.
IntervalTick(k) ==
  /\ trkTicks[k].pc = "idle"
  /\ LET selected == SelectSeq(trkTxs, IsPending)
         pending == [i \in 1..Len(selected) |->
                       [localTxId |-> selected[i].localTxId,
                        rpcTxId |-> selected[i].rpcTxId, status |-> selected[i].status]]
     IN
     IF pending = <<>>
     THEN trkQuery' = NoQuery /\ UNCHANGED trkTicks
     ELSE /\ trkTicks' = [trkTicks EXCEPT ![k] = [pc |-> "awaiting", pending |-> pending,
                                                  at |-> 1]]
          /\ trkQuery' = QueryFor(k, pending[1])
  /\ trkLast' = NoReply /\ trkTriggered' = {}
  /\ UNCHANGED trkTxs
  /\ UNCHANGED <<coreVars, nonTrackExt>>

\* The loop of tick k goes on to its next entry, or ends.
NextEntry(k) ==
  LET tick == trkTicks[k] IN
  IF tick.at < Len(tick.pending)
  THEN /\ trkTicks' = [trkTicks EXCEPT ![k].at = tick.at + 1]
       /\ trkQuery' = QueryFor(k, tick.pending[tick.at + 1])
  ELSE /\ trkTicks' = [trkTicks EXCEPT ![k] = IdleTick]
       /\ trkQuery' = NoQuery

\* Mutant: the status of a missing receipt is left undefined.
ReceiptStatus_noDefault(r) == IF r = "null" THEN Absent ELSE r

\* r?.status ?? "not_found"
ReceiptStatus(r) == IF r = "null" THEN "not_found" ELSE r

\* Mutant: only the refresh of the account is started.
RefreshesOnApplied_accountOnly == {"refreshAccount"}

\* if (becameApplied) { refreshAccount(); refreshHistory() }
RefreshesOnApplied == {"refreshAccount", "refreshHistory"}

\* The receipt awaited by tick k arrives (App.tsx 818-837).
ReceiptReply(k, r) ==
  /\ trkTicks[k].pc = "awaiting"
  /\ LET t == trkTicks[k].pending[trkTicks[k].at]
         becameApplied == t.status # "applied" /\ r = "applied"
     IN /\ trkTxs' = SetReceipt(t.localTxId, ReceiptStatus(r), r)
        /\ trkLast' = [via |-> "poll", localTxId |-> t.localTxId, outcome |-> r,
                       left |-> Len(trkTicks[k].pending) - trkTicks[k].at]
        /\ trkTriggered' = IF becameApplied THEN RefreshesOnApplied ELSE {}
  /\ NextEntry(k)
  /\ UNCHANGED <<coreVars, nonTrackExt>>

\* The call awaited by tick k throws (App.tsx 838-840): catch { } ignores
\* every failure.
ReceiptFail(k, e) ==
  /\ trkTicks[k].pc = "awaiting"
  /\ LET t == trkTicks[k].pending[trkTicks[k].at]
     IN trkLast' = [via |-> "poll", localTxId |-> t.localTxId, outcome |-> e,
                    left |-> Len(trkTicks[k].pending) - trkTicks[k].at]
  /\ trkTriggered' = {}
  /\ NextEntry(k)
  /\ UNCHANGED trkTxs
  /\ UNCHANGED <<coreVars, nonTrackExt>>

\* checkTxNow(localTxId) (App.tsx 852-876), with the answer or failure of its
\* getTransactionReceipt: a timeout is ignored, another error is recorded.
CheckTxNow(localTxId, outcome) ==
  /\ \E i \in 1..Len(trkTxs) : trkTxs[i].localTxId = localTxId
  /\ trkQuery' = QueryFor(0, EntryOf(localTxId))
  /\ trkLast' = [via |-> "check", localTxId |-> localTxId, outcome |-> outcome, left |-> 0]
  /\ trkTxs' = IF outcome \in ReceiptAnswers
               THEN SetReceipt(localTxId, ReceiptStatus(outcome), outcome)
               ELSE IF outcome = "RpcTimeoutError" THEN trkTxs
               ELSE SetReceipt(localTxId, "error", ErrorReceipt)
  /\ trkTriggered' = {}
  /\ UNCHANGED trkTicks
  /\ UNCHANGED <<coreVars, nonTrackExt>>

TrackUnused ==
  /\ trkTxs = <<>>
  /\ trkTicks = [k \in Ticks |-> IdleTick]
  /\ trkQuery = NoQuery
  /\ trkLast = NoReply
  /\ trkTriggered = {}

TrackNext ==
  \/ \E status \in {Absent, "pending"} : TrackNewTx(status)
  \/ \E id \in 1..MaxTracked : TrackBroadcastOk(id)
  \/ \E k \in Ticks : IntervalTick(k)
  \/ \E k \in Ticks, r \in ReceiptAnswers : ReceiptReply(k, r)
  \/ \E k \in Ticks, e \in ReceiptErrors : ReceiptFail(k, e)
  \/ \E id \in 1..MaxTracked, outcome \in ReceiptAnswers \cup ReceiptErrors :
       CheckTxNow(id, outcome)

\* ---------------------------------------------------------------------
\* The extension popup's wallet and vault (wallet-extension popupApp.tsx).
\* persistWallet awaits chrome.storage.local.set between making the record
\* and setting the popup's state; other handlers run during the await.
\* ---------------------------------------------------------------------

NoPassword == "none"
NoPopWallet == [kind |-> "none", accounts |-> 0, selected |-> 0]
NoPopVault == [present |-> FALSE, password |-> NoPassword, payload |-> NoPopWallet]
NoHandler == [op |-> "none", arg |-> 0, outcome |-> "none"]

\* createVaultV1({ password, plaintext: utf8ToBytes(JSON.stringify(updated)) })
PopRecord(updated, password) == [present |-> TRUE, password |-> password, payload |-> updated]

\* openVaultV1 and parseWalletDataAny give the wallet of a record.
PopOpens(record, password) == record.present /\ record.password = password

\* unlock(); openVaultV1 throws for another password.
PopUnlock(password) ==
  /\ popLocked /\ popVault.present
  /\ IF PopOpens(popVault, password)
     THEN /\ popWallet' = popVault.payload
          /\ popLocked' = FALSE
          /\ popPassword' = password
          /\ popLast' = [op |-> "unlock", arg |-> 0, outcome |-> "ok"]
     ELSE /\ UNCHANGED <<popWallet, popLocked, popPassword>>
          /\ popLast' = [op |-> "unlock", arg |-> 0, outcome |-> "failed"]
  /\ UNCHANGED <<popStored, popVault, popPending>>
  /\ UNCHANGED <<coreVars, nonPopExt>>

\* lock(); its button is disabled while locked.
PopLock ==
  /\ ~popLocked
  /\ popLocked' = TRUE
  /\ popWallet' = NoPopWallet
  /\ popPassword' = NoPassword
  /\ popLast' = [op |-> "lock", arg |-> 0, outcome |-> "ok"]
  /\ UNCHANGED <<popStored, popVault, popPending>>
  /\ UNCHANGED <<coreVars, nonPopExt>>

\* persistWallet(updated) up to its await: throws when no password is held,
\* else makes the record and calls storageSet.
PopPersistStart(handler, arg, updated) ==
  IF popPassword = NoPassword
  THEN /\ popLast' = [op |-> handler, arg |-> arg, outcome |-> "failed"]
       /\ UNCHANGED popPending
  ELSE /\ popPending' = Append(popPending, [op |-> handler, arg |-> arg, updated |-> updated,
                                            record |-> PopRecord(updated, popPassword),
                                            written |-> FALSE])
       /\ popLast' = [op |-> handler, arg |-> arg, outcome |-> "pending"]

\* switchAccount(accountId), up to persistWallet's await.
PopSwitchAccount(account) ==
  /\ Len(popPending) < MaxPending
  /\ IF popWallet = NoPopWallet
     THEN /\ popLast' = [op |-> "select", arg |-> account, outcome |-> "returned"]
          /\ UNCHANGED popPending
     ELSE IF account \notin 1..popWallet.accounts
     THEN /\ popLast' = [op |-> "select", arg |-> account, outcome |-> "failed"]
          /\ UNCHANGED popPending
     ELSE PopPersistStart("select", account, [popWallet EXCEPT !.selected = account])
  /\ UNCHANGED <<popStored, popVault, popLocked, popWallet, popPassword>>
  /\ UNCHANGED <<coreVars, nonPopExt>>

\* addNewAccount(), up to persistWallet's await; addAccount throws for a
\* private-key wallet.
PopAddNewAccount ==
  /\ Len(popPending) < MaxPending
  /\ popWallet.accounts < MaxAccounts
  /\ IF popWallet = NoPopWallet
     THEN /\ popLast' = [op |-> "add", arg |-> 0, outcome |-> "returned"]
          /\ UNCHANGED popPending
     ELSE IF popWallet.kind # "mnemonic_v1"
     THEN /\ popLast' = [op |-> "add", arg |-> 0, outcome |-> "failed"]
          /\ UNCHANGED popPending
     ELSE PopPersistStart("add", 0, [popWallet EXCEPT !.accounts = @ + 1,
                                                      !.selected = popWallet.accounts + 1])
  /\ UNCHANGED <<popStored, popVault, popLocked, popWallet, popPassword>>
  /\ UNCHANGED <<coreVars, nonPopExt>>

\* The persistWallet call whose record chrome.storage writes next: the
\* writes are made in the order of the storageSet calls.
NextWrite == CHOOSE i \in 1..Len(popPending) :
               ~popPending[i].written /\ \A j \in 1..(i - 1) : popPending[j].written

\* chrome.storage.local.set writes a record.
PopStorageWritten ==
  /\ \E i \in 1..Len(popPending) : ~popPending[i].written
  /\ popStored' = popPending[NextWrite].record
  /\ popPending' = [popPending EXCEPT ![NextWrite].written = TRUE]
  /\ popLast' = NoHandler
  /\ UNCHANGED <<popVault, popLocked, popWallet, popPassword>>
  /\ UNCHANGED <<coreVars, nonPopExt>>

\* storageSet has resolved: setVault(record); setWalletData(updated), and the
\* setters that follow in switchAccount and addNewAccount.
PopPersistResumed ==
  /\ popPending # <<>> /\ popPending[1].written
  /\ popVault' = popPending[1].record
  /\ popWallet' = popPending[1].updated
  /\ popLast' = [op |-> popPending[1].op, arg |-> popPending[1].arg, outcome |-> "ok"]
  /\ popPending' = Tail(popPending)
  /\ UNCHANGED <<popStored, popLocked, popPassword>>
  /\ UNCHANGED <<coreVars, nonPopExt>>

\* The popup before a vault is stored.
PopUnused ==
  /\ popStored = NoPopVault
  /\ popVault = NoPopVault
  /\ popLocked = TRUE
  /\ popWallet = NoPopWallet
  /\ popPassword = NoPassword
  /\ popPending = <<>>
  /\ popLast = NoHandler

\* The popup as a returning user opens it: the stored vault is loaded, locked.
PopReturning ==
  /\ \E kind \in {"mnemonic_v1", "private_key_v1"} :
       popStored = PopRecord([kind |-> kind, accounts |-> 1, selected |-> 1], "pw1")
  /\ popVault = popStored
  /\ popLocked = TRUE
  /\ popWallet = NoPopWallet
  /\ popPassword = NoPassword
  /\ popPending = <<>>
  /\ popLast = NoHandler

PopNext ==
  \/ \E password \in AppPasswords : PopUnlock(password)
  \/ PopLock
  \/ \E account \in 1..(MaxAccounts + 1) : PopSwitchAccount(account)
  \/ PopAddNewAccount
  \/ PopStorageWritten
  \/ PopPersistResumed

\* ---------------------------------------------------------------------
\* One send over the failover client (wallet-web App.tsx send, rpc.ts):
\* assertChainIdentity, the reads send needs, then sendRawTransaction, each a
\* call() of the same CatalystRpcClient. The client's URLs are the base URL
\* the user entered followed by the network's default URLs, so a URL's node
\* may or may not report the configured identity. The send's calls use the
\* first call slot, one after the other.
EpSlot == CHOOSE c \in RpcCalls : \A d \in RpcCalls : c <= d

IdentityGetters == <<"catalyst_chainId", "catalyst_networkId", "catalyst_genesisHash">>

\* The reads of send after the identity check, in the order of the code:
\* estimateFee when fee is null, getBalance when balance is null, getNonce
\* when the allocator has no entry for the sender.
SendReads == <<"catalyst_estimateFee", "catalyst_getBalance", "catalyst_getNonce">>

IndexIn(list, x) == CHOOSE i \in 1..Len(list) : list[i] = x
IsIn(list, x) == \E i \in 1..Len(list) : list[i] = x

\* What send may call after `method` returned: a later read, or the broadcast.
CallsAfter(method) ==
  LET from == IF IsIn(SendReads, method) THEN IndexIn(SendReads, method) + 1 ELSE 1
  IN {SendReads[i] : i \in from..Len(SendReads)} \cup {"catalyst_sendRawTransaction"}

NoSend == [pc |-> "idle", method |-> "none", answered |-> {}, called |-> <<>>]

EpUnused ==
  /\ epExpected = {}
  /\ epSend = NoSend

EpFrame == UNCHANGED <<allocVars, idVars, accountVars, sendVars, nonEpExt>>

\* The send awaits this.call(method, ...), which runs up to its first fetch.
EpAwait(method, answered) ==
  /\ epSend' = [pc |-> "awaiting", method |-> method, answered |-> answered,
                called |-> Append(epSend.called, method)]
  /\ rpcCalls' = [rpcCalls EXCEPT ![EpSlot] = CallLocals(TRUE)]
  /\ nextId' = nextId + 1
  /\ UNCHANGED <<urlCount, lastGoodIndex, epExpected>>

\* The send is over: it returned or its catch block ran.
EpEnd(pc) ==
  /\ epSend' = [epSend EXCEPT !.pc = pc]
  /\ UNCHANGED <<rpcVars, epExpected>>

\* send(): await ensureChainIdentityOk(), that is assertChainIdentity's
\* `await rpc.getSyncInfo()`.
EpSendCalled ==
  /\ epSend.pc = "idle"
  /\ EpAwait("catalyst_getSyncInfo", {})
  /\ EpFrame

\* The awaited call returned the answer of URL rpcCalls[EpSlot].out. The
\* identity is compared once getSyncInfo or the last getter answered; a
\* mismatch throws. After the check and after each read send goes on to a
\* later read or to the broadcast, or throws (insufficient balance); after
\* the broadcast it records the transaction id.
EpCallReturned ==
  /\ epSend.pc = "awaiting"
  /\ rpcCalls[EpSlot].pc = "returned"
  /\ LET m == epSend.method
         url == rpcCalls[EpSlot].out
         answered == epSend.answered \cup {url}
     IN CASE m = "catalyst_getSyncInfo" \/ m = "catalyst_genesisHash" ->
               IF answered \subseteq epExpected
               THEN \E next \in CallsAfter(m) : EpAwait(next, answered)
               ELSE EpEnd("failed")
          [] IsIn(IdentityGetters, m) ->
               EpAwait(IdentityGetters[IndexIn(IdentityGetters, m) + 1], answered)
          [] IsIn(SendReads, m) ->
               \/ \E next \in CallsAfter(m) : EpAwait(next, epSend.answered)
               \/ m = "catalyst_getBalance" /\ EpEnd("failed")
          [] OTHER -> EpEnd("sent")
  /\ EpFrame

\* The awaited call threw: after getSyncInfo the getters are asked, any other
\* failure ends the send in its catch block.
EpCallThrew ==
  /\ epSend.pc = "awaiting"
  /\ rpcCalls[EpSlot].pc = "thrown"
  /\ IF epSend.method = "catalyst_getSyncInfo"
     THEN EpAwait(IdentityGetters[1], {})
     ELSE EpEnd("failed")
  /\ EpFrame

EpNext ==
  \/ EpSendCalled
  \/ EpCallReturned
  \/ EpCallThrew
  \/ RpcFetchOk(EpSlot)
  \/ \E o \in FetchOutcomes : RpcFetchFail(EpSlot, o)

\* ---------------------------------------------------------------------
\* lock() and a running send (wallet-web App.tsx). send is a closure over
\* the privkeyHex and addressHex of the render it was called in; the Lock
\* button is shown, and enabled, whenever the wallet is unlocked. The
\* wallet has two accounts; an account's key stands for its address too.
LkKeys == {"key1", "key2"}
NoSession == [walletData |-> "null", privkeyHex |-> "null", sessionPassword |-> "null"]
IdleSend == [pc |-> "idle", privkeyHex |-> "null"]
\* readJson of a key that was never written.
NoStoredTxs == [present |-> FALSE, list |-> <<>>]

\* The awaits of send before allocateNonce that may follow the one now
\* awaited: estimateFee when fee is null, getBalance when balance is null.
AwaitsAfter(pc) ==
  CASE pc = "identity" -> {"estimateFee", "getBalance", "allocateNonce"}
    [] pc = "estimateFee" -> {"getBalance", "allocateNonce"}
    [] OTHER -> {"allocateNonce"}

\* The effects that run when addressHex becomes `key`'s address with txs
\* being `list`: the stored list, when there is one, replaces txs; txs is
\* written under the address's key.
TxsEffects(key, list) ==
  /\ lkTxs' = IF lkStored[key].present THEN lkStored[key].list ELSE list
  /\ lkStored' = [lkStored EXCEPT ![key] = [present |-> TRUE, list |-> lkTxs']]

LkUnused ==
  /\ lkLocked = TRUE
  /\ lkVault = "key1"
  /\ lkSession = NoSession
  /\ lkTxs = <<>>
  /\ lkStored = [k \in LkKeys |-> NoStoredTxs]
  /\ lkSend = IdleSend
  /\ lkCount = 0
  /\ lkSince = {}

LkFrame == UNCHANGED <<coreVars, nonLkExt>>

\* unlock() with the vault's password, and the effects that follow: the one
\* on walletData sets privkeyHex and addressHex of the selected account.
LkUnlock ==
  /\ lkLocked
  /\ lkLocked' = FALSE
  /\ lkSession' = [walletData |-> "wallet", privkeyHex |-> lkVault, sessionPassword |-> "pw"]
  /\ TxsEffects(lkVault, lkTxs)
  /\ lkSince' = {}
  /\ UNCHANGED <<lkVault, lkSend, lkCount>>
  /\ LkFrame

\* lock(): with addressHex null the effect on txs writes nothing.
LkLock ==
  /\ ~lkLocked
  /\ lkLocked' = TRUE
  /\ lkSession' = NoSession
  /\ lkTxs' = <<>>
  /\ lkSince' = {}
  /\ UNCHANGED <<lkVault, lkStored, lkSend, lkCount>>
  /\ LkFrame

\* switchAccount(accountId): it returns at once without walletData;
\* persistWallet throws without a session password, else it writes the
\* vault; then the account's key and address are set.
LkSwitchAccount(key) ==
  /\ lkSession.walletData # "null"
  /\ lkSession.sessionPassword # "null"
  /\ key # lkSession.privkeyHex
  /\ lkVault' = key
  /\ lkSession' = [lkSession EXCEPT !.privkeyHex = key]
  /\ TxsEffects(key, lkTxs)
  /\ lkSince' = IF lkLocked THEN lkSince \cup {[did |-> "vault written", privkeyHex |-> key]}
                ELSE lkSince
  /\ UNCHANGED <<lkLocked, lkSend, lkCount>>
  /\ LkFrame

\* send() up to `await ensureChainIdentityOk()`: it returns at once without
\* a key or while sendBusy.
LkSendCalled ==
  /\ lkSession.privkeyHex # "null"
  /\ lkSend.pc = "idle"
  /\ lkCount < MaxOps
  /\ lkSend' = [pc |-> "identity", privkeyHex |-> lkSession.privkeyHex]
  /\ lkCount' = lkCount + 1
  /\ UNCHANGED <<lkLocked, lkVault, lkSession, lkTxs, lkStored, lkSince>>
  /\ LkFrame

\* The call send awaits returned. After allocateNonce the transaction is
\* built and signed with the closure's privkeyHex, its record is put first
\* in txs and sendRawTransaction is called; after the broadcast the record
\* gets rpcTxId and sendBusy is reset. The effect on txs writes the list
\* under the key of the address now selected, when there is one.
LkSendResumed ==
  /\ lkSend.pc # "idle"
  /\ CASE lkSend.pc = "allocateNonce" ->
            /\ lkSend' = [lkSend EXCEPT !.pc = "broadcast"]
            /\ lkTxs' = <<lkCount>> \o lkTxs
            /\ lkStored' = IF lkSession.privkeyHex = "null" THEN lkStored
                           ELSE [lkStored EXCEPT ![lkSession.privkeyHex] =
                                   [present |-> TRUE, list |-> lkTxs']]
            /\ lkSince' = IF lkLocked
                          THEN lkSince \cup {[did |-> "signed", privkeyHex |-> lkSend.privkeyHex],
                                             [did |-> "tracked", privkeyHex |-> lkSend.privkeyHex],
                                             [did |-> "broadcast", privkeyHex |-> lkSend.privkeyHex]}
                          ELSE lkSince
       [] lkSend.pc = "broadcast" ->
            /\ lkSend' = IdleSend
            /\ UNCHANGED <<lkTxs, lkStored, lkSince>>
       [] OTHER ->
            /\ \E next \in AwaitsAfter(lkSend.pc) : lkSend' = [lkSend EXCEPT !.pc = next]
            /\ UNCHANGED <<lkTxs, lkStored, lkSince>>
  /\ UNCHANGED <<lkLocked, lkVault, lkSession, lkCount>>
  /\ LkFrame

\* The call send awaits threw, or the balance does not suffice: the catch
\* block, and sendBusy is reset.
LkSendThrew ==
  /\ lkSend.pc # "idle"
  /\ lkSend' = IdleSend
  /\ UNCHANGED <<lkLocked, lkVault, lkSession, lkTxs, lkStored, lkCount, lkSince>>
  /\ LkFrame

LkNext ==
  \/ LkUnlock
  \/ LkLock
  \/ \E key \in LkKeys : LkSwitchAccount(key)
  \/ LkSendCalled
  \/ LkSendResumed
  \/ LkSendThrew

\* ---------------------------------------------------------------------
\* The cached chain verification (the App variant src/unnamed/part_000):
\* rpc is a client of the one URL rpcUrl; verifyChain is a callback over rpc
\* that an effect starts whenever rpc changes and that two buttons start;
\* send refuses to sign unless chainOk is true.
VfUrls == 0..(MaxUrls - 1)

\* The list without its i-th element.
Without(list, i) == SubSeq(list, 1, i - 1) \o SubSeq(list, i + 1, Len(list))

\* verifyChain() up to `await assertChainIdentity(rpc, ...)`.
VfStarted(url, epoch) == Append(vfRuns, [url |-> url, epoch |-> epoch])

VfUnused ==
  /\ vfUrl = 0
  /\ vfGood = {}
  /\ vfChainOk = "null"
  /\ vfRuns = <<>>
  /\ vfEpoch = 0
  /\ vfPassed = FALSE
  /\ vfSigned = {}

VfFrame == UNCHANGED <<coreVars, nonVfExt>>

\* The RPC URL field is edited: a new client; the effects reset chainOk and
\* start verifyChain for it.
SetRpcUrl(url) ==
  /\ url # vfUrl
  /\ vfEpoch < MaxChanges
  /\ Len(vfRuns) < MaxVerifying
  /\ vfUrl' = url
  /\ vfEpoch' = vfEpoch + 1
  /\ vfChainOk' = "null"
  /\ vfRuns' = VfStarted(url, vfEpoch + 1)
  /\ vfPassed' = FALSE
  /\ UNCHANGED <<vfGood, vfSigned>>
  /\ VfFrame

\* A "verify" button: verifyChain() of the current render.
VerifyChainCalled ==
  /\ Len(vfRuns) < MaxVerifying
  /\ vfChainOk' = "null"
  /\ vfRuns' = VfStarted(vfUrl, vfEpoch)
  /\ UNCHANGED <<vfUrl, vfGood, vfEpoch, vfPassed, vfSigned>>
  /\ VfFrame

\* assertChainIdentity of the i-th running verification returned:
\* setChainOk(true).
VerifyChainPassed(i) ==
  /\ i \in 1..Len(vfRuns)
  /\ vfRuns[i].url \in vfGood
  /\ vfChainOk' = "true"
  /\ vfPassed' = (vfPassed \/ vfRuns[i].epoch = vfEpoch)
  /\ vfRuns' = Without(vfRuns, i)
  /\ UNCHANGED <<vfUrl, vfGood, vfEpoch, vfSigned>>
  /\ VfFrame

\* It threw, for a mismatch or a failing RPC: setChainOk(false).
VerifyChainFailed(i) ==
  /\ i \in 1..Len(vfRuns)
  /\ vfChainOk' = "false"
  /\ vfRuns' = Without(vfRuns, i)
  /\ UNCHANGED <<vfUrl, vfGood, vfEpoch, vfPassed, vfSigned>>
  /\ VfFrame

\* send() with the wallet unlocked: it returns unless chainOk is true, else
\* it signs for the client of its render and broadcasts through it.
GatedSend ==
  /\ vfChainOk = "true"
  /\ vfSigned' = vfSigned \cup {[url |-> vfUrl, passed |-> vfPassed]}
  /\ UNCHANGED <<vfUrl, vfGood, vfChainOk, vfRuns, vfEpoch, vfPassed>>
  /\ VfFrame

VfNext ==
  \/ \E url \in VfUrls : SetRpcUrl(url)
  \/ VerifyChainCalled
  \/ \E i \in 1..MaxVerifying : VerifyChainPassed(i)
  \/ \E i \in 1..MaxVerifying : VerifyChainFailed(i)
  \/ GatedSend

\* No wallet value is held.
WalletUnused ==
  /\ walletData = NoWallet
  /\ walletThrown = "none"
  /\ nextAcctId = 1
  /\ walletOp = "none"
  /\ walletInput = [type |-> "none", hasAccounts |-> FALSE, data |-> NoWallet]

ExtUnused ==
  /\ EpUnused /\ LkUnused /\ VfUnused
  /\ WalletUnused /\ VaultUnused /\ TxUnused /\ AppUnused /\ PollUnused /\ TrackUnused
  /\ PopUnused

WalletNext ==
  \/ \E m \in Mnemonics, pp \in Passphrases, n \in 0..2 : CreateMnemonicWalletV2(m, pp, n)
  \/ \E hex \in PrivateKeyInputs : CreatePrivateKeyWalletV2(hex)
  \/ \E payload \in WalletPayloads : ParseWalletDataAny(payload)
  \/ \E id \in (1..(MaxAccounts + 1)) \cup {101, 102} : SelectAccount(id)
  \/ AddAccount

AllocInit ==
  /\ nextNonceByAddr = [s \in Senders |-> Undefined]
  /\ nonceLocks = [s \in Senders |-> 0]
  /\ callPc = [c \in Calls |-> "idle"]
  /\ callSender = [c \in Calls |-> "none"]
  /\ callPrev = [c \in Calls |-> 0]
  /\ released = [c \in Calls |-> FALSE]
  /\ callResult = [c \in Calls |-> Undefined]
  /\ rpcSnap = [c \in Calls |-> 0]
  /\ committedNonce = [s \in Senders |-> BaseCommitted]
  /\ advances = 0
  /\ completedLog = [s \in Senders |-> <<>>]
  /\ raisedSince = [s \in Senders |-> FALSE]
  /\ callRaised = [c \in Calls |-> FALSE]

\* The client as the other specifications hold it: constructed, not used.
RpcUnused ==
  /\ urlCount = 1
  /\ lastGoodIndex = 0
  /\ nextId = 1
  /\ rpcCalls = [c \in RpcCalls |-> IdleRpcCall]

Init == AllocInit /\ RpcUnused /\ IdUnused /\ AccountInit(100) /\ SendIdle /\ ExtUnused

Next ==
  \/ \E c \in Calls, s \in Senders : AllocateNonce(c, s)
  \/ \E c \in Calls : AllocEnter(c)
  \/ \E c \in Calls : AllocGetNonceReply(c)
  \/ \E c \in Calls : AllocGetNonceFail(c)
  \/ RefreshAccount
  \/ FaucetFloorEffect
  \/ \E s \in Senders : ChainCommit(s)

Spec == Init /\ [][Next]_vars

\* The RPC client alone: calls, their HTTP attempts and failover.
RpcSpecInit == AllocInit /\ RpcInit /\ IdUnused /\ AccountInit(100) /\ SendIdle /\ ExtUnused

RpcSpec == RpcSpecInit /\ [][RpcNext]_vars

\* The client's scheduling: every fetchRpc ends, with a response, an error
\* or the abort its timer makes after timeoutMs.
RpcLiveSpec ==
  /\ RpcSpec
  /\ \A c \in RpcCalls : WF_vars(RpcFetchOk(c) \/ \E o \in FetchOutcomes : RpcFetchFail(c, o))

\* assertChainIdentity alone, for every reported identity and configuration.
IdentitySpecInit == AllocInit /\ RpcUnused /\ IdInit /\ AccountInit(100) /\ SendIdle /\ ExtUnused

SendInit ==
  /\ AllocInit
  /\ RpcUnused
  /\ \E b \in BalanceAnswers : AccountInit(b)
  /\ SendIdle
  /\ idReported \in EndpointIdentities
  /\ idCfg = CatalystTestnet
  /\ idPc = "unused"
  /\ idGot = NullIdentity
  /\ idResult = "pending"
  /\ idCalled = <<>>
  /\ ExtUnused

\* send and requestFaucetFunds, with verifyChain, the Estimate button,
\* refreshes and a changing endpoint around them.
SendSpec == SendInit /\ [][SendNext]_vars

IdentitySpec == IdentitySpecInit /\ [][IdNext]_vars

\* The wallet functions: a constructor, then any additions and selections.
WalletSpec == Init /\ [][WalletNext]_vars
VaultSpec == Init /\ [][VaultNext]_vars
TxSpec == Init /\ [][TxNext]_vars
AppSpec == Init /\ [][AppNext]_vars
PollSpec == RpcSpecInit /\ [][PollNext]_vars
\* send and requestFaucetFunds on the verified testnet endpoint, with
\* refreshes, while other users of the accounts advance the chain.
FloorInit ==
  /\ SendInit
  /\ idReported.network_id = <<"N", "E", "T">>
  /\ chainBalance = 205
FloorNext ==
  \/ \E to \in Recipients \ {"bad"} : Send(to, 200)
  \/ RequestFaucetFunds(200)
  \/ IdSyncInfoReply
  \/ IdSyncInfoFail
  \/ IdGetterFail
  \/ IdChainIdReply
  \/ IdNetworkIdReply
  \/ IdGenesisHashReply
  \/ OpIdentityDone
  \/ OpEstimateFeeReply
  \/ OpGetBalanceReply
  \/ OpRpcFail
  \/ FaucetGetNonceReply
  \/ FaucetGetNonceFail
  \/ \E c \in Calls : AllocEnter(c)
  \/ \E c \in Calls : AllocGetNonceReply(c)
  \/ \E c \in Calls : AllocGetNonceFail(c)
  \/ OpAllocateReturned
  \/ OpAllocateThrown
  \/ OpBroadcastReply
  \/ OpBroadcastFail
  \/ RefreshAccount
  \/ \E s \in Senders : ChainCommit(s)
FloorSpec == FloorInit /\ [][FloorNext]_vars

\* The application on a fresh page or on a returning user's.
PersistInit ==
  /\ EpUnused /\ LkUnused /\ VfUnused
  /\ AllocInit /\ RpcUnused /\ IdUnused /\ AccountInit(100) /\ SendIdle
  /\ WalletUnused /\ VaultUnused /\ TxUnused /\ PollUnused /\ TrackUnused /\ PopUnused
  /\ (AppUnused \/ AppReturning)
PersistSpec == PersistInit /\ [][AppNext]_vars
\* The extension popup of a returning user.
PopupInit ==
  /\ EpUnused /\ LkUnused /\ VfUnused
  /\ AllocInit /\ RpcUnused /\ IdUnused /\ AccountInit(100) /\ SendIdle
  /\ WalletUnused /\ VaultUnused /\ TxUnused /\ AppUnused /\ PollUnused /\ TrackUnused
  /\ PopReturning
PopupSpec == PopupInit /\ [][PopNext]_vars
\* The client of a wallet whose URLs serve the configured chain or another.
EndpointInit ==
  /\ AllocInit /\ RpcInit /\ IdUnused /\ AccountInit(100) /\ SendIdle
  /\ WalletUnused /\ VaultUnused /\ TxUnused /\ AppUnused /\ PollUnused /\ TrackUnused
  /\ PopUnused /\ LkUnused /\ VfUnused
  /\ epExpected \in SUBSET (0..(urlCount - 1))
  /\ epSend = NoSend

EndpointSpec == EndpointInit /\ [][EpNext]_vars

\* The page after its first render: the effects have reset chainOk and
\* started verifyChain for the stored or default URL.
VerifyInit ==
  /\ AllocInit /\ RpcUnused /\ IdUnused /\ AccountInit(100) /\ SendIdle
  /\ WalletUnused /\ VaultUnused /\ TxUnused /\ AppUnused /\ PollUnused /\ TrackUnused
  /\ PopUnused /\ EpUnused /\ LkUnused
  /\ vfUrl = 0
  /\ vfGood \in SUBSET VfUrls
  /\ vfChainOk = "null"
  /\ vfRuns = <<[url |-> 0, epoch |-> 0]>>
  /\ vfEpoch = 0
  /\ vfPassed = FALSE
  /\ vfSigned = {}

VerifySpec == VerifyInit /\ [][VfNext]_vars

\* The wallet of a returning user, locked; then unlock, lock and sends.
LockSpec == Init /\ [][LkNext]_vars
\* The tracked list: sends, interval ticks, their replies, "check now".
TrackSpec == Init /\ [][TrackNext]_vars

\* The code's scheduling: a continuation whose promise is resolved is run by
\* the event loop, and every RPC ends (answer, error or timeout abort).
LiveSpec ==
  /\ Spec
  /\ \A c \in Calls : WF_vars(AllocEnter(c))
  /\ \A c \in Calls : WF_vars(AllocGetNonceReply(c) \/ AllocGetNonceFail(c))

\* ---------------------------------------------------------------- claims
Completed(c) == callPc[c] \in {"returned", "thrown"}
Returned(c) == callPc[c] = "returned"
\* Calls are initiated in the order of their numbers (guard of AllocateNonce).
SameSender(c, d) == callSender[c] # "none" /\ callSender[c] = callSender[d]
\* The call has passed `await prev` and has not yet run release().
InCriticalSection(c) == callPc[c] \notin {"idle", "awaitPrev"} /\ ~released[c]
\* d is the next call after c, for the same sender, that returned a nonce.
NextReturned(c, d) ==
  /\ c < d /\ SameSender(c, d) /\ Returned(c) /\ Returned(d)
  /\ \A e \in Calls : (c < e /\ e < d /\ SameSender(c, e)) => ~Returned(e)

\* C1: for one sender, allocateNonce calls complete in the order in which they
\* were initiated, and the nonces they return are strictly increasing in that
\* order (so no two calls of a sender return the same nonce), under every
\* interleaving with RPC completions and floor bumps.
C1_FifoStrictlyIncreasing ==
  /\ \A s \in Senders : \A i, j \in 1..Len(completedLog[s]) :
       i < j => completedLog[s][i] < completedLog[s][j]
  /\ \A c, d \in Calls :
       (c < d /\ SameSender(c, d) /\ Completed(d)) => Completed(c)
  /\ \A c, d \in Calls :
       (c < d /\ SameSender(c, d) /\ Returned(c) /\ Returned(d))
         => callResult[c] < callResult[d]

\* Three calls of one sender were initiated and all returned, one of them
\* after a floor bump raised the next nonce.
C1_Witness ==
  /\ \A c \in Calls : Returned(c) /\ callSender[c] = "addrA"
  /\ \E c \in Calls : c > 1 /\ callRaised[c]

\* C2: the calls of a sender return contiguous values: the first returns
\* committed + 1 for a committed nonce the chain had (read by the call or
\* pre-seeded by a floor bump); each later call, when no floor bump raised the
\* next nonce in between, returns its predecessor's value + 1; and the map is
\* left at the last returned value + 1.
C2_Contiguous ==
  /\ \A c \in Calls :
       (Returned(c) /\ ~\E b \in Calls : NextReturned(b, c))
         => callResult[c] - 1 \in BaseCommitted..committedNonce[callSender[c]]
  /\ \A c, d \in Calls :
       (NextReturned(c, d) /\ ~callRaised[d]) => callResult[d] = callResult[c] + 1
  /\ \A c \in Calls :
       (Returned(c) /\ ~raisedSince[callSender[c]]
          /\ ~\E d \in Calls : NextReturned(c, d))
         => nextNonceByAddr[callSender[c]] = callResult[c] + 1

\* Scenario D: with next nonce 5, three calls queued together returned 5, 6, 7
\* in call order and left the next nonce at 8.
C2_Witness ==
  /\ \A c \in Calls : callSender[c] = "addrA" /\ Returned(c) /\ ~callRaised[c]
  /\ callResult[1] = 5 /\ callResult[2] = 6 /\ callResult[3] = 7
  /\ nextNonceByAddr["addrA"] = 8

\* C8: once set, nextNonceByAddr[sender] never decreases, whatever the
\* interleaving of allocateNonce and floor bumps.
C8_FloorNeverDecreases ==
  [][\A s \in Senders :
       nextNonceByAddr[s] # Undefined => nextNonceByAddr'[s] >= nextNonceByAddr[s]]_vars

\* C9: when getNonce fails inside allocateNonce the call throws, leaves the
\* nonce map as it was and releases the lock; and every call that waits for
\* its predecessor eventually completes.
C9_ReleasedOnEveryPath ==
  /\ [][\A c \in Calls :
          (callPc[c] = "awaitRpc" /\ callPc'[c] = "thrown")
            => (nextNonceByAddr' = nextNonceByAddr /\ released'[c])]_vars
  /\ \A c \in Calls : (callPc[c] = "awaitPrev") ~> Completed(c)

\* A getNonce failure made a call throw, and a later call of the same sender
\* entered the critical section and returned a nonce.
C9_Witness ==
  \E c, d \in Calls :
    c < d /\ SameSender(c, d) /\ callPc[c] = "thrown" /\ Returned(d)

\* C10: at most one allocateNonce invocation per sender is inside the critical
\* section, and a call has left `await prev` only when every earlier call of
\* the same sender has released.
C10_MutualExclusion ==
  /\ \A c, d \in Calls :
       (c # d /\ SameSender(c, d)) => ~(InCriticalSection(c) /\ InCriticalSection(d))
  /\ \A c, d \in Calls :
       (c < d /\ SameSender(c, d) /\ callPc[d] \notin {"idle", "awaitPrev"})
         => released[c]

\* The first call is suspended in its getNonce RPC inside the critical
\* section while two more calls of the same sender wait for it.
C10_Witness ==
  /\ callPc[1] = "awaitRpc" /\ callPc[2] = "awaitPrev" /\ callPc[3] = "awaitPrev"
  /\ SameSender(1, 2) /\ SameSender(1, 3)

\* The rotation the specification describes: from k upwards, wrapping round.
RotationFrom(k) == [i \in 1..urlCount |-> (k + i - 1) % urlCount]
IsPrefix(a, b) == Len(a) <= Len(b) /\ \A i \in 1..Len(a) : a[i] = b[i]
CallReturnsNow(c) == rpcCalls[c].pc = "fetching" /\ rpcCalls'[c].pc = "returned"
CallAttemptFailsNow(c) ==
  /\ rpcCalls[c].pc = "fetching"
  /\ rpcCalls'[c] # rpcCalls[c]
  /\ rpcCalls'[c].lastOutcome.kind # "result"
\* The outcomes the specification lists as retryable, and as not retryable.
ListedRetryable(o) ==
  \/ o.kind \in {"timeout", "abortError", "abortBody", "network"}
  \/ o.kind = "http" /\ (o.status >= 500 \/ o.status \in {408, 429})
ListedFinal(o) ==
  \/ o.kind = "rpcError"
  \/ o.kind = "http" /\ o.status >= 400 /\ o.status < 500 /\ o.status \notin {408, 429}

\* C5: with failover allowed the URLs are tried in rotation order starting at
\* lastGoodIndex as it was when the call began; a call that succeeds on a URL
\* returns that URL's result and sets lastGoodIndex to its index; and
\* lastGoodIndex changes only when a call succeeds (never on a failed attempt
\* or a failed call).
C5_RotationAndLastGood ==
  /\ [](\A c \in RpcCalls :
          (rpcCalls[c].pc # "idle" /\ rpcCalls[c].allowFailover)
            => /\ IsPrefix(rpcCalls[c].posted, RotationFrom(rpcCalls[c].start))
               /\ (rpcCalls[c].pc = "returned"
                     => rpcCalls[c].out = rpcCalls[c].posted[Len(rpcCalls[c].posted)]))
  /\ [][\A c \in RpcCalls :
          CallReturnsNow(c)
            => lastGoodIndex' = rpcCalls[c].posted[Len(rpcCalls[c].posted)]]_vars
  /\ [][lastGoodIndex' # lastGoodIndex => \E c \in RpcCalls : CallReturnsNow(c)]_vars

\* A call that began with lastGoodIndex = 2 tried URL 2, wrapped round to
\* URL 0, succeeded there and left lastGoodIndex = 0.
C5_Witness ==
  \E c \in RpcCalls :
    /\ rpcCalls[c].pc = "returned" /\ rpcCalls[c].allowFailover
    /\ rpcCalls[c].start = 2 /\ rpcCalls[c].posted = <<2, 0>>
    /\ rpcCalls[c].out = 0 /\ lastGoodIndex = 0

\* C6: an attempt that fails with a JSON-RPC error object or an HTTP 4xx other
\* than 408 and 429 makes the call throw that error at once, with no further
\* URL contacted; an attempt that fails with a timeout, a network error or
\* HTTP 5xx, 408 or 429, with failover allowed and a URL left in the
\* rotation, is followed by a POST to the next URL.
C6_FailoverClasses ==
  [][\A c \in RpcCalls :
       CallAttemptFailsNow(c) =>
         LET r == rpcCalls[c]
             q == rpcCalls'[c]
         IN /\ ListedFinal(q.lastOutcome)
                 => /\ q.pc = "thrown"
                    /\ q.posted = r.posted
                    /\ q.lastErr = FetchRpcError(q.lastOutcome)
            /\ (ListedRetryable(q.lastOutcome) /\ r.allowFailover
                  /\ Len(r.posted) < urlCount)
                 => /\ q.pc = "fetching"
                    /\ q.posted = Append(r.posted, (r.posted[Len(r.posted)] + 1) % urlCount)]_vars

\* One call threw an HTTP 404 on its first URL without going further, and
\* another went past an HTTP 429 to a second URL.
C6_Witness ==
  \E c, d \in RpcCalls :
    /\ rpcCalls[c].pc = "thrown" /\ rpcCalls[c].allowFailover
    /\ rpcCalls[c].lastOutcome = [kind |-> "http", status |-> 404]
    /\ Len(rpcCalls[c].posted) = 1 /\ urlCount = 3
    /\ rpcCalls[d].pc = "fetching" /\ Len(rpcCalls[d].posted) = 2
    /\ rpcCalls[d].lastOutcome = [kind |-> "http", status |-> 429]

\* The chain id a reported string stands for when it is read as 0x-prefixed
\* hex or as decimal; Undefined when it is neither.
HexOrDecimal(str) ==
  IF Len(str) >= 2 /\ str[1] = "0" /\ LowerChar(str[2]) = "x"
  THEN IF AllDigits(Tail2(str), 16) THEN DigitsToInt(Tail2(str), 16) ELSE Undefined
  ELSE IF AllDigits(str, 10) THEN DigitsToInt(str, 10) ELSE Undefined

SameLowercased(a, b) == ToLowerCase(a) = ToLowerCase(b)

\* The invocation got its three strings and finished.
IdentityCompared == idPc = "done" /\ idResult # "RpcError"

\* C7: assertChainIdentity succeeds if and only if the reported chain id, read
\* as 0x-prefixed hex or as decimal, equals the expected chain id and the
\* reported network id and genesis hash equal the expected ones when both sides
\* are lowercased; a chain id that decodes to another number raises the chain id
\* mismatch, and with the chain id equal a different network id (then genesis
\* hash) raises the mismatch error of that field.
C7_IdentityIff ==
  IdentityCompared =>
    LET chainEq == HexOrDecimal(idGot.chain_id) = idCfg.chainId
        netEq == SameLowercased(idGot.network_id, idCfg.networkId)
        genEq == SameLowercased(idGot.genesis_hash, idCfg.genesisHashHex)
    IN /\ (idResult = "ok") <=> (chainEq /\ netEq /\ genEq)
       /\ (HexOrDecimal(idGot.chain_id) # Undefined /\ ~chainEq)
            => idResult = "ChainIdMismatch"
       /\ (chainEq /\ ~netEq) => idResult = "NetworkIdMismatch"
       /\ (chainEq /\ netEq /\ ~genEq) => idResult = "GenesisHashMismatch"

\* The same statement with the chain id read as BigInt reads it (which also
\* accepts 0b, 0o and the empty string): this is what the code does.
IdentityIffBigInt ==
  IdentityCompared =>
    LET parsed == BigIntOfString(ToLowerCase(idGot.chain_id))
        chainEq == parsed.ok /\ parsed.val = idCfg.chainId
        netEq == SameLowercased(idGot.network_id, idCfg.networkId)
        genEq == SameLowercased(idGot.genesis_hash, idCfg.genesisHashHex)
    IN /\ (idResult = "ok") <=> (chainEq /\ netEq /\ genEq)
       /\ (parsed.ok /\ ~chainEq) => idResult = "ChainIdMismatch"
       /\ (chainEq /\ ~netEq) => idResult = "NetworkIdMismatch"
       /\ (chainEq /\ netEq /\ ~genEq) => idResult = "GenesisHashMismatch"

\* The claim's example: "0x01" against 200820092 fails on the chain id.
IdentityExample ==
  (IdentityCompared /\ idGot.chain_id = <<"0", "x", "0", "1">>
     /\ idCfg.chainId = TestnetChainId)
    => idResult = "ChainIdMismatch"

\* A binary literal was accepted as the expected chain id.
IdentityBinaryAccepted ==
  /\ IdentityCompared
  /\ idGot.chain_id = <<"0", "b", "1">>
  /\ idCfg.chainId = 1
  /\ idResult = "ok"

\* The running (or last) operation got past its identity check without
\* assertChainIdentity having succeeded in it.
PastIdentityUnverified ==
  op.kind # "none" /\ op.pc \notin {"identity", "done"} /\ ~op.assertedOk

\* The operation ended and assertChainIdentity did not succeed in it.
IdentityFailed == op.kind # "none" /\ op.pc = "done" /\ ~op.assertedOk

\* C3: in every send and faucet request, sendRawTransaction is invoked only
\* after assertChainIdentity succeeded earlier in that same invocation,
\* whatever the cached chainOk flag; when the identity check fails the
\* operation fails without an allocateNonce call, without signing, without a
\* tracked record and without sendRawTransaction.
C3_BroadcastOnlyAfterIdentity ==
  /\ [](~PastIdentityUnverified)
  /\ [](IdentityFailed =>
          /\ op.thrown.kind # "none"
          /\ ~op.allocCalled /\ ~op.signed /\ ~op.tracked /\ ~op.broadcast)
  /\ [][Len(broadcasts') > Len(broadcasts) => op.assertedOk]_vars
  /\ [][(op'.kind # "none" /\ ~op'.assertedOk)
          => (txs' = txs /\ broadcasts' = broadcasts /\ callPc' = callPc)]_vars

\* A first operation broadcast and left chainOk "true"; the next one failed
\* its identity check and broadcast nothing.
C3_Witness ==
  /\ IdentityFailed
  /\ op.thrown.kind = "ChainIdMismatch"
  /\ chainOk = "true"
  /\ Len(broadcasts) = 1
  /\ Len(txs) = 1

\* C4: send computes need = amount + fees, or fees for a transfer to the own
\* address; with have < need it fails with the insufficient-balance error
\* reporting have and need, and that invocation calls no allocateNonce, adds
\* no tracked record and does not invoke sendRawTransaction.
C4_InsufficientFunds ==
  /\ []((op.kind = "send" /\ op.bal # Undefined) =>
          LET need == IF op.to = AddressHex THEN op.fees ELSE op.amount + op.fees IN
          /\ op.bal < need =>
               /\ op.pc = "done"
               /\ op.thrown = [kind |-> "InsufficientBalance", have |-> op.bal,
                               need |-> need]
               /\ ~op.allocCalled /\ ~op.tracked /\ ~op.broadcast
          /\ op.thrown.kind = "InsufficientBalance" => op.bal < need)
  /\ [][op'.thrown.kind = "InsufficientBalance"
          => (txs' = txs /\ broadcasts' = broadcasts /\ callPc' = callPc)]_vars

\* The example: have = 100, fees = 5, amount = 200 to another address.
C4_Witness ==
  /\ op.kind = "send"
  /\ op.to = "addrB"
  /\ op.amount = 200
  /\ op.fees = 5
  /\ op.bal = 100
  /\ op.thrown = [kind |-> "InsufficientBalance", have |-> 100, need |-> 205]
  /\ broadcasts = <<>>
  /\ txs = <<>>

AccountIndexes(data) == {data.accounts[i].accountIndex : i \in 1..Len(data.accounts)}

\* The invariants of a wallet value.
WalletInvariants(data) ==
  /\ Len(data.accounts) > 0
  /\ HasAccount(data, data.selectedAccountId)
  /\ data.kind = "private_key_v1" => Len(data.accounts) = 1
  /\ data.kind = "mnemonic_v1" =>
       /\ Cardinality(AccountIndexes(data)) = Len(data.accounts)
       /\ \A idx \in AccountIndexes(data) : idx # Undefined /\ idx < data.nextAccountIndex

\* The wallet held came from a version 2 payload (whose account ids are the
\* payload's, not random ones).
FromVersion2Payload == \E i \in 1..Len(walletData.accounts) : walletData.accounts[i].id > 100

\* C11: every wallet value reached by createMnemonicWalletV2,
\* createPrivateKeyWalletV2 or parseWalletDataAny followed by addAccount and
\* selectAccount has a non-empty account list, a selected id that is an
\* account's id, one account if it is a private_key_v1 wallet, and, if it is a
\* mnemonic_v1 wallet, pairwise distinct account indexes below nextAccountIndex.
C11_WalletInvariants == walletData # NoWallet => WalletInvariants(walletData)

\* The same for the wallets that did not come from a version 2 payload.
WalletInvariantsUnlessParsed ==
  (walletData # NoWallet /\ ~FromVersion2Payload) => WalletInvariants(walletData)

\* The key of every account gives the account's address.
KeysMatchAddresses(data) ==
  \A i \in 1..Len(data.accounts) :
    PubkeyFromPrivkeyHex(GetPrivateKeyHexForAccount(data, data.accounts[i].id))
      = data.accounts[i].addressHex

KeysMatchUnlessParsed ==
  (walletData # NoWallet /\ ~FromVersion2Payload) => KeysMatchAddresses(walletData)

\* parseWalletDataAny returned the wallet w / threw.
ParseReturned(w) == walletThrown = "none" /\ walletData = w
ParseRejected == walletThrown # "none" /\ walletData = NoWallet

\* The wallet the legacy migration makes of a key: private_key_v1, one
\* account, the key, and the address of the key.
IsMigrationOf(key) ==
  /\ walletThrown = "none"
  /\ walletData.version = 2 /\ walletData.kind = "private_key_v1"
  /\ Len(walletData.accounts) = 1
  /\ walletData.privateKeyHex = key
  /\ walletData.accounts[1].addressHex = PubkeyFromPrivkeyHex(key)
  /\ walletData.selectedAccountId = walletData.accounts[1].id

IsHexKey(key) ==
  /\ Len(key) = 66 /\ key[1] = "0" /\ key[2] = "x"
  /\ \A i \in 3..66 : DigitValue(key[i]) < 16

OpenedCreated ==
  vaultArgs.created /\ (vaultOpened # NotOpened \/ vaultThrown # "none")

\* C13: for every plaintext and every non-empty password, openVaultV1 with
\* the password of createVaultV1 returns exactly the plaintext, and with any
\* other password it throws the AEAD's authentication error and returns no
\* plaintext.
C13_VaultRoundTrip ==
  (OpenedCreated /\ vaultArgs.password # <<>>) =>
    IF vaultArgs.tried = vaultArgs.password
    THEN vaultThrown = "none" /\ vaultOpened = vaultArgs.plaintext
    ELSE vaultThrown = "invalid tag" /\ vaultOpened = NotOpened

\* A vault holding bytes below and above 16 was opened with its password.
C13_Witness ==
  /\ OpenedCreated
  /\ vaultArgs.password = <<"a", "b">> /\ vaultArgs.tried = <<"a", "b">>
  /\ vaultArgs.plaintext = <<15, 255>>
  /\ vaultOpened = <<15, 255>>

\* v as k little-endian bytes, for 0 <= v < 256^k.
LittleEndian(v, k) == [i \in 1..k |-> IF i <= Len(v.mag) THEN v.mag[i] ELSE 0]

\* bytes + m = 256^Len(bytes), digit by digit.
RECURSIVE AddsToPower(_, _, _)
AddsToPower(bytes, m, carry) ==
  IF bytes = <<>> THEN carry = 1
  ELSE /\ (bytes[1] + m[1] + carry) % 256 = 0
       /\ AddsToPower(Tail(bytes), Tail(m), (bytes[1] + m[1] + carry) \div 256)

\* bytes is the 64-bit two's complement of v, little-endian.
IsI64le(bytes, v) ==
  IF v.neg THEN AddsToPower(bytes, LittleEndian(v, 8), 0) ELSE bytes = LittleEndian(v, 8)

InU64(v) == ~v.neg /\ Len(v.mag) <= 8
InU32(v) == ~v.neg /\ Len(v.mag) <= 4
InI64(v) == Len(v.mag) < 8 \/ (Len(v.mag) = 8 /\ v.mag[8] < 128) \/ (v.neg /\ v.mag = TwoTo63)

\* The 32 bytes a 0x hex string of 64 digits spells.
BytesOfHex32(hex) ==
  [i \in 1..32 |-> DigitValue(hex[2 * i + 1]) * 16 + DigitValue(hex[2 * i + 2])]

WellFormedCore(core) ==
  /\ \A i \in 1..Len(core.entries) :
       IsHexKey(core.entries[i].publicKeyHex) /\ InI64(core.entries[i].amount)
  /\ InU64(core.nonce) /\ InU32(core.lockTime) /\ InU64(core.fees)
  /\ Len(core.data) <= 60
WellFormedTx(tx) ==
  WellFormedCore(tx.core) /\ Len(tx.signature) = 64 /\ InU64(tx.timestamp)

CoreLength(core) == 5 + 41 * Len(core.entries) + 24 + Len(core.data)

\* bytes = u8(0) || u32_le(n) || entries || u64_le(nonce) || u32_le(lock_time)
\*         || u64_le(fees) || u32_le(len(data)) || data
IsCoreOf(bytes, core) ==
  LET n == Len(core.entries)
      e == 5 + 41 * n IN
  /\ Len(bytes) = CoreLength(core)
  /\ bytes[1] = 0
  /\ SubSeq(bytes, 2, 5) = LittleEndian(Big(n), 4)
  /\ \A i \in 1..n :
       LET o == 5 + 41 * (i - 1) IN
       /\ SubSeq(bytes, o + 1, o + 32) = BytesOfHex32(core.entries[i].publicKeyHex)
       /\ bytes[o + 33] = 0
       /\ IsI64le(SubSeq(bytes, o + 34, o + 41), core.entries[i].amount)
  /\ SubSeq(bytes, e + 1, e + 8) = LittleEndian(core.nonce, 8)
  /\ SubSeq(bytes, e + 9, e + 12) = LittleEndian(core.lockTime, 4)
  /\ SubSeq(bytes, e + 13, e + 20) = LittleEndian(core.fees, 8)
  /\ SubSeq(bytes, e + 21, e + 24) = LittleEndian(Big(Len(core.data)), 4)
  /\ SubSeq(bytes, e + 25, Len(bytes)) = core.data

\* bytes = "CTX1" || core || u32_le(64) || signature || u64_le(timestamp)
IsWireOf(bytes, tx) ==
  LET c == CoreLength(tx.core) IN
  /\ bytes # Thrown
  /\ Len(bytes) = 4 + c + 4 + 64 + 8
  /\ SubSeq(bytes, 1, 4) = <<67, 84, 88, 49>>
  /\ IsCoreOf(SubSeq(bytes, 5, 4 + c), tx.core)
  /\ SubSeq(bytes, c + 5, c + 8) = <<64, 0, 0, 0>>
  /\ SubSeq(bytes, c + 9, c + 72) = tx.signature
  /\ SubSeq(bytes, c + 73, c + 80) = LittleEndian(tx.timestamp, 8)

\* bytes = "CATALYST_SIG_V1" || u64_le(chain_id) || genesis || core
\*         || u64_le(timestamp)
IsSigningPayloadOf(bytes, run) ==
  LET c == CoreLength(run.tx.core) IN
  /\ bytes # Thrown
  /\ Len(bytes) = 15 + 8 + 32 + c + 8
  /\ SubSeq(bytes, 1, 15) = <<67, 65, 84, 65, 76, 89, 83, 84, 95, 83, 73, 71, 95, 86, 49>>
  /\ SubSeq(bytes, 16, 23) = LittleEndian(run.chainId, 8)
  /\ SubSeq(bytes, 24, 55) = BytesOfHex32(run.genesisHashHex)
  /\ IsCoreOf(SubSeq(bytes, 56, 55 + c), run.tx.core)
  /\ SubSeq(bytes, 56 + c, 63 + c) = LittleEndian(run.tx.timestamp, 8)

EncodeRuns == {i \in 1..Len(txRuns) : txRuns[i].op = "encode"}

\* C16: for every well-formed transaction the wire bytes are "CTX1" || core
\* || u32_le(64) || signature || u64_le(timestamp) with the core laid out as
\* tag 0, entry count, entries (32 address bytes, 0, i64_le amount), nonce,
\* lock time, fees and length-prefixed data; the signing payload is
\* "CATALYST_SIG_V1" || u64_le(chain_id) || genesis || core ||
\* u64_le(timestamp); and equal wire bytes have equal transaction ids.
C16_WireAndPayloadLayout ==
  /\ \A i \in EncodeRuns :
       WellFormedTx(txRuns[i].tx) =>
         /\ IsWireOf(txRuns[i].wire, txRuns[i].tx)
         /\ (InU64(txRuns[i].chainId) /\ IsHexKey(txRuns[i].genesisHashHex))
              => IsSigningPayloadOf(txRuns[i].payload, txRuns[i])
  /\ \A i, j \in 1..Len(txRuns) :
       (txRuns[i].wire # Thrown /\ txRuns[i].wire = txRuns[j].wire)
         => txRuns[i].txId = txRuns[j].txId

\* The transaction of the repository's test vectors was encoded twice, to the
\* bytes the vectors expect.
VectorWire ==
  <<67, 84, 88, 49, 0, 2, 0, 0, 0, 1, 1, 1, 1, 1, 1, 1, 1, 1, 1, 1, 1, 1, 1, 1, 1, 1, 1, 1, 1,
    1, 1, 1, 1, 1, 1, 1, 1, 1, 1, 1, 1, 0, 249, 255, 255, 255, 255, 255, 255, 255, 2, 2, 2, 2,
    2, 2, 2, 2, 2, 2, 2, 2, 2, 2, 2, 2, 2, 2, 2, 2, 2, 2, 2, 2, 2, 2, 2, 2, 2, 2, 2, 2, 0, 7,
    0, 0, 0, 0, 0, 0, 0, 1, 0, 0, 0, 0, 0, 0, 0, 0, 0, 0, 0, 3, 0, 0, 0, 0, 0, 0, 0, 0, 0, 0,
    0, 64, 0, 0, 0, 0, 0, 0, 0, 0, 0, 0, 0, 0, 0, 0, 0, 0, 0, 0, 0, 0, 0, 0, 0, 0, 0, 0, 0, 0,
    0, 0, 0, 0, 0, 0, 0, 0, 0, 0, 0, 0, 0, 0, 0, 0, 0, 0, 0, 0, 0, 0, 0, 0, 0, 0, 0, 0, 0, 0,
    0, 0, 0, 0, 0, 0, 0, 0, 0, 0, 104, 229, 207, 139, 1, 0, 0>>
VectorSigningPayload ==
  <<67, 65, 84, 65, 76, 89, 83, 84, 95, 83, 73, 71, 95, 86, 49, 105, 122, 0, 0, 0, 0, 0, 0, 0,
    0, 0, 0, 0, 0, 0, 0, 0, 0, 0, 0, 0, 0, 0, 0, 0, 0, 0, 0, 0, 0, 0, 0, 0, 0, 0, 0, 0, 0, 0,
    0, 0, 2, 0, 0, 0, 1, 1, 1, 1, 1, 1, 1, 1, 1, 1, 1, 1, 1, 1, 1, 1, 1, 1, 1, 1, 1, 1, 1, 1,
    1, 1, 1, 1, 1, 1, 1, 1, 0, 249, 255, 255, 255, 255, 255, 255, 255, 2, 2, 2, 2, 2, 2, 2, 2,
    2, 2, 2, 2, 2, 2, 2, 2, 2, 2, 2, 2, 2, 2, 2, 2, 2, 2, 2, 2, 2, 2, 2, 2, 0, 7, 0, 0, 0, 0,
    0, 0, 0, 1, 0, 0, 0, 0, 0, 0, 0, 0, 0, 0, 0, 3, 0, 0, 0, 0, 0, 0, 0, 0, 0, 0, 0, 0, 104,
    229, 207, 139, 1, 0, 0>>
C16_Witness ==
  /\ Len(txRuns) = 2
  /\ \A i \in 1..2 :
       /\ txRuns[i].op = "encode"
       /\ txRuns[i].tx = [core |-> VectorCore, signature |-> Repeat(<<0>>, 64),
                          timestamp |-> VectorTimestamp]
       /\ txRuns[i].wire = VectorWire
  /\ txRuns[1].chainId = Big(31337)
  /\ txRuns[1].genesisHashHex = <<"0", "x">> \o Repeat(<<"0", "0">>, 32)
  /\ txRuns[1].payload = VectorSigningPayload

\* Two calls with the same core and timestamp.
SameCoreAndTimestamp(r1, r2) ==
  r1.tx.core = r2.tx.core /\ r1.tx.timestamp = r2.tx.timestamp
SameChain(r1, r2) ==
  r1.chainId = r2.chainId /\ ToLowerCase(r1.genesisHashHex) = ToLowerCase(r2.genesisHashHex)

\* C17: for two inputs with the same core and timestamp the signing payloads
\* are equal exactly if chain id and genesis hash are both equal, while with
\* the same core, signature and timestamp the wire bytes and the transaction
\* id are the same whatever the chain id and genesis hash.
C17_PayloadBindsChain ==
  \A i, j \in {k \in 1..Len(txRuns) : txRuns[k].op \in {"encode", "build"}} :
    LET r1 == txRuns[i]
        r2 == txRuns[j] IN
    /\ (SameCoreAndTimestamp(r1, r2) /\ r1.payload # Thrown /\ r2.payload # Thrown)
         => ((r1.payload = r2.payload) <=> SameChain(r1, r2))
    /\ (SameCoreAndTimestamp(r1, r2) /\ r1.tx.signature = r2.tx.signature)
         => (r1.wire = r2.wire /\ r1.txId = r2.txId)

\* The same transaction was encoded for two chains: other chain id, other
\* genesis hash, different signing payloads, one wire image.
C17_Witness ==
  /\ Len(txRuns) = 2
  /\ txRuns[1].tx = txRuns[2].tx
  /\ txRuns[1].chainId # txRuns[2].chainId
  /\ txRuns[1].genesisHashHex # txRuns[2].genesisHashHex
  /\ txRuns[1].payload # Thrown /\ txRuns[2].payload # Thrown
  /\ txRuns[1].payload # txRuns[2].payload
  /\ txRuns[1].wire # Thrown /\ txRuns[1].wire = txRuns[2].wire

BuildRuns == {i \in 1..Len(txRuns) : txRuns[i].op = "build"}

\* A transfer to the sender's own address, of a positive amount, is built.
SelfTransferAccepted ==
  \A i \in BuildRuns :
    (/\ txRuns[i].to = PubkeyFromPrivkeyHex(KeyLower)
     /\ ~txRuns[i].amount.neg /\ txRuns[i].amount.mag # <<>> /\ InI64(txRuns[i].amount))
      => (txRuns[i].wire # Thrown /\ txRuns[i].tx.signature # Thrown)

\* C18: for every amount <= 0 buildAndSignTransferTxV1 throws and gives no
\* signature and no wire bytes, whoever calls it; a transfer whose recipient
\* is the sender is accepted.
C18_AmountRequired ==
  /\ \A i \in BuildRuns :
       (txRuns[i].amount.neg \/ txRuns[i].amount.mag = <<>>)
         => (txRuns[i].wire = Thrown /\ txRuns[i].tx.signature = Thrown
             /\ txRuns[i].txId = Thrown)
  /\ SelfTransferAccepted

SecretFields == {"mnemonic", "passphrase", "privateKeyHex"}

\* C14: no value written to localStorage holds the mnemonic, the passphrase
\* or a private key in the clear: the wallet payload is written only inside
\* the ciphertext of a vault record, and the RPC URL, the tracked transactions
\* and the chain history hold no secret at all.
C14_NoSecretInStorage ==
  \A w \in lsWritten :
    /\ w.clear \cap SecretFields = {}
    /\ w.key # "LS_VAULT" => w.sealed = {}

\* A mnemonic wallet with a second account was persisted, and a tracked list
\* and a chain history were written.
C14_Witness ==
  /\ uiWallet.kind = "mnemonic_v1" /\ uiWallet.accounts = 2
  /\ \E w \in lsWritten : w.key = "LS_VAULT" /\ "mnemonic" \in w.sealed
  /\ \E w \in lsWritten : w.key = "LS_TXS" /\ w.clear # {}
  /\ \E w \in lsWritten : w.key = "LS_CHAIN_HISTORY"

\* The list shown for the selected address is the list stored for it.
ShownEqualsStored ==
  (Quiescent /\ uiAddress # NoAddress) =>
    (lsTxs[uiAddress].present /\ lsTxs[uiAddress].list = uiTxs)

\* C19: after any sequence of unlock, send, account switch, account addition
\* and lock, the list shown for the selected address is the list stored for
\* that address, and no transaction recorded while one address was selected
\* is in the list stored under another address.
C19_AddressScopedLists ==
  Quiescent =>
    /\ ShownEqualsStored
    /\ \A b \in 1..MaxAccounts :
         \A i \in 1..Len(lsTxs[b].list) : lsTxs[b].list[i].from = b

\* A tick makes at most one request for each pending entry.
OneRequestPerEntry == pollPending # NoTick => nextId - 1 <= pollPending

\* C20: in a polling tick each pending entry's getTransactionReceipt request
\* makes at most one HTTP POST, also when endpoints time out or fail.
C20_OnePostPerPendingTx ==
  pollPending # NoTick =>
    \A i \in 1..pollPending : Len(rpcCalls[i].posted) <= 1

\* ---------------------------------------------------------------------
\* Transfer construction
\* ---------------------------------------------------------------------

\* The calls of buildAndSignTransferTxV1 that returned a transaction.
BuiltRuns == {i \in BuildRuns : txRuns[i].wire # Thrown}

\* a + b = 0
SumToZero(a, b) == a.mag = b.mag /\ (a.mag = <<>> \/ a.neg # b.neg)

\* C21: every transaction buildAndSignTransferTxV1 returns has exactly two
\* entries, first the sender's (the address of the signing key) with
\* -amount, then the recipient's with +amount, so the amounts sum to zero;
\* its nonce is the nonce passed in and its data is empty.
C21_TransferShape ==
  \A i \in BuiltRuns :
    LET core == txRuns[i].tx.core IN
    /\ Len(core.entries) = 2
    /\ core.entries[1].publicKeyHex = PubkeyFromPrivkeyHex(txRuns[i].privkeyHex)
    /\ core.entries[2].publicKeyHex = ToLowerCase(txRuns[i].to)
    /\ core.entries[2].amount = txRuns[i].amount
    /\ SumToZero(core.entries[1].amount, core.entries[2].amount)
    /\ core.nonce = txRuns[i].nonce
    /\ core.data = <<>>

\* A transfer of a positive amount to another address, with a nonce other
\* than 1, was built.
C21_Witness ==
  \E i \in BuiltRuns :
    /\ txRuns[i].to = Pk2
    /\ txRuns[i].amount = Big(7)
    /\ txRuns[i].nonce = Big(5)
    /\ txRuns[i].tx.core.entries[1].amount = Big(-7)

\* ---------------------------------------------------------------------
\* Range checks of the encoders
\* ---------------------------------------------------------------------

ScalarRuns == {i \in 1..Len(txRuns) : txRuns[i].op \in {"u8", "u32le", "u64le", "i64le"}}

\* v is in the range of the encoder, and the number of bytes it writes.
InRangeOf(encoder, v) ==
  CASE encoder = "u8" -> ~v.neg /\ Len(v.mag) <= 1
    [] encoder = "u32le" -> InU32(v)
    [] encoder = "u64le" -> InU64(v)
    [] encoder = "i64le" -> InI64(v)
WidthOf(encoder) ==
  CASE encoder = "u8" -> 1 [] encoder = "u32le" -> 4 [] OTHER -> 8

\* Every integer of the transaction is in its range, data has at most 60
\* bytes and the signature 64.
RangesOk(tx) ==
  /\ \A i \in 1..Len(tx.core.entries) : InI64(tx.core.entries[i].amount)
  /\ InU64(tx.core.nonce) /\ InU32(tx.core.lockTime) /\ InU64(tx.core.fees)
  /\ Len(tx.core.data) <= 60
  /\ Len(tx.signature) = 64 /\ InU64(tx.timestamp)

\* tx with its addresses in lower case.
LowerAddresses(tx) ==
  [tx EXCEPT !.core.entries =
     [i \in 1..Len(tx.core.entries) |->
        [tx.core.entries[i] EXCEPT !.publicKeyHex = ToLowerCase(@)]]]

\* C22: an encoder given a value outside its range throws and returns no
\* bytes (u8, u32le, u64le, i64le by themselves; wire bytes, id and signing
\* payload of a transaction with an out-of-range amount, nonce, lock time,
\* fees, timestamp or chain id, data over 60 bytes or a signature not of 64
\* bytes); in range, i64le(v) is u64le(v mod 2^64), and different values or
\* transactions never encode to the same bytes.
C22_NoSilentNormalization ==
  /\ \A i \in ScalarRuns :
       LET r == txRuns[i] IN
       IF InRangeOf(r.op, r.amount)
       THEN /\ r.wire # Thrown /\ Len(r.wire) = WidthOf(r.op)
            /\ r.op = "i64le" => /\ IsI64le(r.wire, r.amount)
                                 /\ ~r.amount.neg => r.wire = U64le(r.amount)
            /\ r.op # "i64le" => r.wire = LittleEndian(r.amount, WidthOf(r.op))
       ELSE r.wire = Thrown
  /\ \A i, j \in ScalarRuns :
       (txRuns[i].op = txRuns[j].op /\ txRuns[i].wire # Thrown
        /\ txRuns[i].wire = txRuns[j].wire) => txRuns[i].amount = txRuns[j].amount
  /\ \A i \in EncodeRuns :
       LET r == txRuns[i] IN
       /\ ~RangesOk(r.tx) => (r.wire = Thrown /\ r.txId = Thrown)
       /\ (~RangesOk([r.tx EXCEPT !.signature = Repeat(<<0>>, 64)]) \/ ~InU64(r.chainId))
            => r.payload = Thrown
  /\ \A i, j \in EncodeRuns :
       (txRuns[i].wire # Thrown /\ txRuns[i].wire = txRuns[j].wire)
         => LowerAddresses(txRuns[i].tx) = LowerAddresses(txRuns[j].tx)

\* i64le encoded a negative amount, and a transaction whose nonce is 2^64 was
\* refused.
C22_Witness ==
  /\ Len(txRuns) = 2
  /\ txRuns[1].op = "i64le" /\ txRuns[1].amount = Big(-7)
  /\ txRuns[1].wire = <<249>> \o Repeat(<<255>>, 7)
  /\ txRuns[2].op = "encode" /\ txRuns[2].tx.core.nonce = BigOf(FALSE, TwoTo64)
  /\ txRuns[2].wire = Thrown

\* ---------------------------------------------------------------------
\* Receipt polling of the tracked list
\* ---------------------------------------------------------------------

\* The step just taken started a tick's loop, handled a reply of the loop.
TickStarted == trkQuery.tick # 0 /\ trkLast.via = "none"
PollHandled == trkLast.via = "poll"

FailureSwallowed ==
  /\ trkTxs' = trkTxs
  /\ trkLast'.left > 0 => (trkQuery'.tick # 0 /\ trkQuery'.localTxId # trkLast'.localTxId)
  /\ trkLast'.left = 0 => \A k \in Ticks : trkTicks'[k].pc = "idle"

\* What holds of the loop: every failure is swallowed, a timeout included.
PollFailuresSwallowed ==
  [][(PollHandled' /\ trkLast'.outcome \in ReceiptErrors) => FailureSwallowed]_vars

\* What holds of checkTxNow: a timeout leaves the entry, another error gives
\* it the status error and the message as its last receipt.
CheckNowRecordsErrors ==
  [][(trkLast'.via = "check" /\ trkLast'.outcome \in ReceiptErrors) =>
       IF trkLast'.outcome = "RpcTimeoutError" THEN trkTxs' = trkTxs
       ELSE \E i \in 1..Len(trkTxs') :
              /\ trkTxs'[i].localTxId = trkLast'.localTxId
              /\ trkTxs'[i].status = "error"
              /\ trkTxs'[i].lastReceipt = ErrorReceipt]_vars

\* C25: when a call of the polling loop fails with a timeout the entry is
\* left unchanged and the loop goes on; when it fails with another error the
\* entry's status becomes error and its last receipt holds the message.
C25_PollErrors ==
  [][PollHandled' =>
       /\ trkLast'.outcome = "RpcTimeoutError" => FailureSwallowed
       /\ (trkLast'.outcome \in ReceiptErrors /\ trkLast'.outcome # "RpcTimeoutError") =>
            \E i \in 1..Len(trkTxs') :
              /\ trkTxs'[i].localTxId = trkLast'.localTxId
              /\ trkTxs'[i].status = "error"
              /\ trkTxs'[i].lastReceipt = ErrorReceipt]_vars

\* ---------------------------------------------------------------------
\* Persistence of the tracked list
\* ---------------------------------------------------------------------

\* The first n entries of list, all of it when it is shorter.
FirstN(list, n) == [i \in 1..(IF Len(list) < n THEN Len(list) ELSE n) |-> list[i]]

\* C26: once the effects of a change have run with an address selected, the
\* list stored under that address's key is the first 50 entries of the list
\* in memory, newest first; no stored list has more than 50 entries.
C26_StoredIsFirstFifty ==
  /\ (Quiescent /\ uiAddress # NoAddress) =>
       /\ lsTxs[uiAddress].present
       /\ lsTxs[uiAddress].list = FirstN(uiTxs, 50)
       /\ \A i, j \in 1..Len(uiTxs) : i < j => uiTxs[i].localTxId > uiTxs[j].localTxId
  /\ \A a \in 1..MaxAccounts : Len(lsTxs[a].list) <= 50

\* 51 transactions are in memory, the newest first, and the stored list is
\* the 50 newest.
C26_Witness ==
  /\ Quiescent /\ uiAddress # NoAddress
  /\ Len(uiTxs) = 51 /\ uiTxs[1].localTxId = 2
  /\ Len(lsTxs[uiAddress].list) = 50
  /\ lsTxs[uiAddress].list[1].localTxId = 2
  /\ lsTxs[uiAddress].list[50].localTxId = -47

\* ---------------------------------------------------------------------
\* The nonce floor after refreshes and failed broadcasts
\* ---------------------------------------------------------------------

\* The account whose key signs the running operation's transaction.
OpSender == IF op.kind = "faucet" THEN FaucetAddressHex ELSE AddressHex

\* This step is sendRawTransaction throwing and the operation ending with it.
BroadcastFailed ==
  /\ op.pc = "broadcast" /\ op'.pc = "done" /\ op'.thrown.kind = "RpcError"

\* What holds: a refresh that succeeded leaves a floor above a committed
\* nonce of the account.
RefreshBumpsFloor ==
  [][RefreshAccount =>
       /\ nextNonceByAddr'[AddressHex] # Undefined
       /\ nextNonceByAddr'[AddressHex] >= BaseCommitted + 1]_vars

\* C27: the floor is bumped after every successful refresh and after every
\* failed broadcast, so that when a broadcast has failed the sender's next
\* nonce is at least the nonce committed by then, plus one.
C27_FloorAfterBroadcastFailure ==
  [][/\ RefreshAccount => (/\ nextNonceByAddr'[AddressHex] # Undefined
                           /\ nextNonceByAddr'[AddressHex] >= BaseCommitted + 1)
     /\ BroadcastFailed => (/\ nextNonceByAddr'[OpSender] # Undefined
                            /\ nextNonceByAddr'[OpSender] >= committedNonce'[OpSender] + 1)]_vars

\* ---------------------------------------------------------------------
\* The faucet's retry
\* ---------------------------------------------------------------------

\* The tracked record of the faucet transaction with this nonce got the
\* server's id: its broadcast succeeded.
FaucetAccepted(nonce) ==
  \E i \in 1..Len(txs) :
    txs[i].localTxId = [from |-> FaucetAddressHex, nonce |-> nonce] /\ txs[i].rpcTxId

\* C28: a faucet request broadcasts at most twice; each attempt that
\* broadcasts has read the committed nonce and uses a nonce above it, the
\* second attempt a nonce strictly greater than the first; nothing is
\* broadcast after a broadcast that succeeded; when both attempts failed the
\* error reported is the second attempt's.
C28_FaucetRetry ==
  op.kind = "faucet" =>
    /\ Len(op.sent) <= 2
    /\ \A i \in 1..Len(op.sent) :
         \E j \in 1..Len(op.reads) :
           /\ op.reads[j].attempt = op.sent[i].attempt
           /\ op.sent[i].nonce >= op.reads[j].nonce + 1
    /\ Len(op.sent) = 2 =>
         /\ op.sent[1].attempt = 0 /\ op.sent[2].attempt = 1
         /\ op.sent[2].nonce > op.sent[1].nonce
         /\ ~FaucetAccepted(op.sent[1].nonce)
    /\ (op.pc = "done" /\ op.thrown = NoTxError) =>
         (Len(op.sent) >= 1 /\ FaucetAccepted(op.sent[Len(op.sent)].nonce))
    /\ (op.pc = "done" /\ op.attempt = 1 /\ op.thrown # NoTxError) => op.lastErr = 1

\* Both attempts of a faucet request were broadcast, the chain having
\* advanced in between, and both failed.
C28_Witness ==
  /\ op.kind = "faucet" /\ op.pc = "done" /\ op.thrown.kind = "RpcError"
  /\ Len(op.sent) = 2 /\ Len(op.reads) = 2
  /\ op.reads[2].nonce > op.reads[1].nonce
  /\ op.sent[2].nonce > op.sent[1].nonce
  /\ op.lastErr = 1

\* The step is a call of addAccount.
AddAccountCalled == walletData # NoWallet /\ walletOp' = "add"

\* What addAccount is to do to wallet `old`, giving `new` / throwing `thrown`.
AddAccountAsStated(old, new, thrown) ==
  /\ old.kind = "mnemonic_v1" =>
       /\ thrown = "none"
       /\ Len(new.accounts) = Len(old.accounts) + 1
       /\ SubSeq(new.accounts, 1, Len(old.accounts)) = old.accounts
       /\ new.accounts[Len(new.accounts)].accountIndex = old.nextAccountIndex
       /\ new.selectedAccountId = new.accounts[Len(new.accounts)].id
       /\ new.nextAccountIndex = old.nextAccountIndex + 1
       /\ [new EXCEPT !.accounts = old.accounts,
                      !.selectedAccountId = old.selectedAccountId,
                      !.nextAccountIndex = old.nextAccountIndex] = old
  /\ old.kind = "private_key_v1" => thrown # "none" /\ new = old

\* C29: addAccount on a mnemonic_v1 wallet returns the wallet with one account
\* appended to the unchanged list, whose accountIndex is the old
\* nextAccountIndex, selected, and nextAccountIndex one higher; on a
\* private_key_v1 wallet it throws and the wallet stays as it was.
C29_AddAccount ==
  [][AddAccountCalled => AddAccountAsStated(walletData, walletData', walletThrown')]_vars

\* The same for the wallets that did not come from a version 2 payload.
AddAccountUnlessParsed ==
  [][(AddAccountCalled /\ ~FromVersion2Payload)
       => AddAccountAsStated(walletData, walletData', walletThrown')]_vars

\* addAccount has returned a wallet of three accounts, the last one selected.
AddAccountReturned ==
  /\ walletOp = "add"
  /\ walletThrown = "none"
  /\ ~FromVersion2Payload
  /\ Len(walletData.accounts) = 3
  /\ walletData.selectedAccountId = walletData.accounts[3].id

\* The stored vault opens under the session password to the wallet in memory.
PopMatches == PopOpens(popStored, popPassword) /\ popStored.payload = popWallet

\* The step ends / starts a switchAccount or addNewAccount of the popup.
PopMutationDone == popLast'.op \in {"add", "select"} /\ popLast'.outcome = "ok"
PopMutationCalled == popLast'.op \in {"add", "select"} /\ popLast'.outcome # "ok"

\* The call is made with no session password, or for an id that is no account's.
PopLockedOrUnknown ==
  \/ popPassword = NoPassword
  \/ popLast'.op = "select" /\ popLast'.arg \notin 1..popWallet.accounts

\* A call made locked or for an unknown id fails and changes neither the
\* stored vault nor the wallet in memory.
PopFailuresChangeNothing ==
  [][(PopMutationCalled /\ PopLockedOrUnknown)
       => /\ popLast'.outcome \in {"failed", "returned"}
          /\ popStored' = popStored /\ popWallet' = popWallet /\ popVault' = popVault]_vars

\* C30: after every successful addition or selection made while unlocked the
\* stored vault opens under the session password to exactly the wallet in
\* memory; a call made locked or for an unknown id fails and changes neither
\* the stored vault nor the wallet in memory.
C30_VaultFollowsWallet ==
  [][/\ PopMutationDone => PopMatches'
     /\ (PopMutationCalled /\ PopLockedOrUnknown)
          => /\ popLast'.outcome \in {"failed", "returned"}
             /\ popStored' = popStored /\ popWallet' = popWallet]_vars

\* The same for a mutation during whose storage write no other handler ran.
PopVaultFollowsWalletAlone ==
  [][(PopMutationDone /\ Len(popPending) = 1 /\ popPassword = popPending[1].record.password)
       => PopMatches']_vars

\* wallet-web, whose persistWallet has no await: every change of the wallet
\* held while unlocked is in the stored vault, sealed under the session password.
WebVaultFollowsWallet ==
  [][(uiWallet # NoUiWallet /\ uiWallet' # NoUiWallet /\ uiWallet' # uiWallet)
       => /\ lsVault'.present /\ lsVault'.password = uiWallet'.password
          /\ lsVault'.payload = [uiWallet' EXCEPT !.password = "none"]]_vars

\* The step is a call of bumpNextNonceFloor: of the allocator's steps only
\* those leave every allocateNonce call and the chain where they are.
BumpStep == callPc' = callPc /\ committedNonce' = committedNonce

\* max(old, committed + 1), an unset entry counting as below every floor.
FloorOf(old, committed) == IF old = Undefined \/ old < committed + 1 THEN committed + 1 ELSE old

\* C31: bumpNextNonceFloor(sender, committed) leaves next_nonce[sender] at
\* max(old, committed + 1), changes no other sender's entry and does not
\* touch the lock queue.
C31_BumpFloor ==
  [][BumpStep =>
       /\ \E s \in Senders :
            \E committed \in BaseCommitted..committedNonce[s] :
              nextNonceByAddr' = [nextNonceByAddr EXCEPT ![s] = FloorOf(@, committed)]
       /\ UNCHANGED lockVars]_vars

\* A bump has raised the entry of a sender whose lock queue holds a call,
\* while the other sender's entry is set and below its own floor.
C31_Witness ==
  /\ raisedSince[AddressHex]
  /\ nextNonceByAddr[AddressHex] = committedNonce[AddressHex] + 1
  /\ committedNonce[AddressHex] > BaseCommitted
  /\ nonceLocks[AddressHex] # 0
  /\ nextNonceByAddr[FaucetAddressHex] # Undefined

\* Call c, made with failover allowed, has thrown a retryable error.
ThrewRetryable(c) ==
  /\ rpcCalls[c].pc = "thrown" /\ rpcCalls[c].allowFailover
  /\ ShouldFailover(rpcCalls[c].lastErr)

\* No URL is in the list twice.
NoRepeat(list) == \A i, j \in 1..Len(list) : i # j => list[i] # list[j]

\* C32: with failover allowed a call posts to each URL at most once, in
\* rotation order from lastGoodIndex, so to at most urlCount URLs; when the
\* last error is retryable every URL was tried and the error thrown is that of
\* the last one; an abort that fetch reports is an RpcTimeoutError; a step in
\* which a call throws leaves lastGoodIndex as it was; and every call ends.
C32_BoundedFailover ==
  /\ [](\A c \in RpcCalls :
          (rpcCalls[c].pc # "idle" /\ rpcCalls[c].allowFailover)
            => /\ Len(rpcCalls[c].posted) <= urlCount
               /\ NoRepeat(rpcCalls[c].posted)
               /\ \A i \in 1..Len(rpcCalls[c].posted) :
                    rpcCalls[c].posted[i] = (rpcCalls[c].start + i - 1) % urlCount
               /\ ThrewRetryable(c)
                    => /\ Len(rpcCalls[c].posted) = urlCount
                       /\ rpcCalls[c].lastErr = FetchRpcError(rpcCalls[c].lastOutcome)
               /\ rpcCalls[c].lastOutcome.kind \in {"timeout", "abortError"}
                    => rpcCalls[c].lastErr.name = "RpcTimeoutError")
  /\ [][\A c \in RpcCalls :
          (rpcCalls[c].pc = "fetching" /\ rpcCalls'[c].pc = "thrown")
            => lastGoodIndex' = lastGoodIndex]_vars
  /\ \A c \in RpcCalls :
       (rpcCalls[c].pc = "fetching") ~> (rpcCalls[c].pc \in {"returned", "thrown"})

\* A call that began at lastGoodIndex = 1 tried URLs 1, 2 and 0, all of which
\* failed retryably, the last one with HTTP 500, which it threw.
C32_Witness ==
  \E c \in RpcCalls :
    /\ ThrewRetryable(c)
    /\ urlCount = 3
    /\ rpcCalls[c].start = 1 /\ rpcCalls[c].posted = <<1, 2, 0>>
    /\ rpcCalls[c].lastErr = [name |-> "RpcHttpError", status |-> 500]
    /\ lastGoodIndex = 1

\* C33: a call made with allowFailover = false posts once, to the URL at
\* lastGoodIndex as it is when the call is made; once that attempt has failed
\* the call has thrown the attempt's error, retryable or not.
C33_NoFailover ==
  \A c \in RpcCalls :
    (rpcCalls[c].pc # "idle" /\ ~rpcCalls[c].allowFailover)
      => /\ rpcCalls[c].posted = <<rpcCalls[c].start>>
         /\ rpcCalls[c].lastOutcome.kind \notin {"none", "result"}
              => /\ rpcCalls[c].pc = "thrown"
                 /\ rpcCalls[c].lastErr = FetchRpcError(rpcCalls[c].lastOutcome)
         /\ rpcCalls[c].pc = "thrown" => rpcCalls[c].lastOutcome.kind \notin {"none", "result"}
         /\ rpcCalls[c].pc = "returned" => rpcCalls[c].out = rpcCalls[c].start

\* With three URLs and lastGoodIndex = 1 a call without failover timed out on
\* URL 1 and threw the timeout, URLs 2 and 0 not having been tried.
C33_Witness ==
  \E c \in RpcCalls :
    /\ urlCount = 3
    /\ ~rpcCalls[c].allowFailover /\ rpcCalls[c].pc = "thrown"
    /\ rpcCalls[c].start = 1 /\ rpcCalls[c].posted = <<1>>
    /\ rpcCalls[c].lastErr = [name |-> "RpcTimeoutError", status |-> 0]

\* The methods of the fallback path, in the order of the code.
IdentityMethods ==
  <<"catalyst_getSyncInfo", "catalyst_chainId", "catalyst_networkId", "catalyst_genesisHash">>

\* The identity check has ended.
IdentityEnded == idPc = "done"

\* C34 as stated: the check ends having called getSyncInfo alone, or
\* getSyncInfo and then each of the three getters once, in order.
C34_AllGettersCalled ==
  IdentityEnded => (idCalled = <<"catalyst_getSyncInfo">> \/ idCalled = IdentityMethods)

\* C34: getSyncInfo is called first; when it answers an object no getter is
\* called; when it throws, chainId, networkId and genesisHash are called in
\* that order, each at most once and only after the one before it answered;
\* the failure of a getter ends the check as failed, the getters after it
\* not being called.
C34_FallbackOrder ==
  /\ idPc \notin {"start", "unused"}
       => /\ Len(idCalled) >= 1
          /\ idCalled = SubSeq(IdentityMethods, 1, Len(idCalled))
  /\ idPc \in {"getSyncInfo", "chainId", "networkId", "genesisHash"}
       => /\ idCalled[Len(idCalled)] = "catalyst_" \o idPc
          /\ idResult = "pending"
  /\ (IdentityEnded /\ Len(idCalled) = 1)
       => /\ idGot = idReported
          /\ idResult = CompareIdentity(idReported, idCfg)
  /\ (IdentityEnded /\ Len(idCalled) \in {2, 3}) => idResult = "RpcError"
  /\ (IdentityEnded /\ Len(idCalled) = 4)
       => \/ idResult = "RpcError"
          \/ idGot = idReported /\ idResult = CompareIdentity(idReported, idCfg)

\* getSyncInfo failed and then rpc.chainId() failed: the check has failed and
\* neither networkId nor genesisHash was called.
C34_Witness ==
  /\ IdentityEnded
  /\ idCalled = <<"catalyst_getSyncInfo", "catalyst_chainId">>
  /\ idResult = "RpcError"

\* The URLs the send's awaited call was POSTed to.
PostedTo == {rpcCalls[EpSlot].posted[i] : i \in 1..Len(rpcCalls[EpSlot].posted)}

\* C35: every URL to which a send transmits catalyst_sendRawTransaction
\* answered the chain-identity check of that send with the expected identity,
\* also when the broadcast fails over to another configured URL.
C35_BroadcastOnlyToVerified ==
  epSend.method = "catalyst_sendRawTransaction"
    => /\ PostedTo \subseteq epSend.answered
       /\ PostedTo \subseteq epExpected

\* C36: terminal statuses are absorbing: once a tracked entry's status is
\* applied or dropped, no later step (a polling tick already in flight, a
\* manual check, the completion of the entry's broadcast) changes it.
C36_TerminalAbsorbing ==
  [][\A id \in 1..MaxTracked :
       EntryOf(id).status \in {"applied", "dropped"}
         => EntryOf(id)'.status = EntryOf(id).status]_vars

\* The nonces of the sender's transactions whose broadcast succeeded.
AcceptedNonces(sender) ==
  {txs[i].localTxId.nonce :
     i \in {j \in 1..Len(txs) : txs[j].localTxId.from = sender /\ txs[j].rpcTxId}}

\* C37: the nonce of a send whose broadcast failed is carried by the next
\* transaction broadcast successfully for the sender, so that with nobody
\* else using the account the nonces of the successfully broadcast
\* transactions are committed + 1, committed + 2, ... without gaps.
C37_NoNonceLost ==
  committedNonce[AddressHex] = BaseCommitted
    => AcceptedNonces(AddressHex) =
         (BaseCommitted + 1)..(BaseCommitted + Cardinality(AcceptedNonces(AddressHex)))

\* The calls of the builder that returned, by itself or in send.
ReturnedBuilds == {i \in 1..Len(txRuns) : txRuns[i].op \in {"build", "send"}
                                      /\ txRuns[i].wire # Thrown}

\* The bytes of a signing payload after domain, chain id and genesis hash:
\* the core and the timestamp.
PayloadBody(payload) == SubSeq(payload, Len(TX_SIG_DOMAIN_V1) + 8 + 32 + 1, Len(payload))

\* The bytes of a wire transaction after the magic, without the signature
\* (its length prefix and 64 bytes) that stands before the timestamp.
WireBody(wire) ==
  SubSeq(wire, Len(TX_WIRE_MAGIC_V1) + 1, Len(wire) - 8 - 64 - 4)
    \o SubSeq(wire, Len(wire) - 7, Len(wire))

\* The 64 bytes before the timestamp.
WireSignature(wire) == SubSeq(wire, Len(wire) - 8 - 63, Len(wire) - 8)

\* C38: for every result of buildAndSignTransferTxV1 the core and timestamp
\* in the wire bytes are those of the signing payload that was signed, the
\* signature in the envelope is the 64-byte signature made over that payload
\* with the sender's key, and txIdHex is the id of the returned wireHex; the
\* tracked record of a send has this txIdHex as its local id.
C38_SignedIsSent ==
  \A i \in ReturnedBuilds :
    LET r == txRuns[i] IN
    /\ r.signed.message = r.payload
    /\ WireBody(r.wire) = PayloadBody(r.payload)
    /\ r.signed.privkeyHex = r.privkeyHex
    /\ r.tx.core.entries[1].publicKeyHex = PubkeyFromPrivkeyHex(r.privkeyHex)
    /\ Len(r.signed.signature) = 64
    /\ r.tx.signature = r.signed.signature
    /\ WireSignature(r.wire) = r.signed.signature
    /\ r.txId = <<"0x", "blake2b-512[0..32]", SdkHexToBytes(r.wireHex)>>
    /\ r.op = "send" => r.localTxId = r.txId

\* A send built a transfer to an address given in upper case and tracked it.
C38_Witness ==
  \E i \in ReturnedBuilds :
    /\ txRuns[i].op = "send"
    /\ txRuns[i].to = ToLowerCase(PkUpper)
    /\ txRuns[i].signed.signature = Repeat(<<170>>, 64)
    /\ txRuns[i].localTxId # NoLocalTxId

\* C39: after lock() the wallet, the private key, the session password and
\* the tracked list are cleared, and until the next unlock nothing is signed
\* or broadcast, also when a send was suspended in an RPC call at the moment
\* of the lock.
C39_LockedMeansInert ==
  lkLocked => /\ lkSession = NoSession
              /\ lkTxs = <<>>
              /\ lkSince = {}

\* C40: chainOk is true only if the endpoint now configured passed
\* assertChainIdentity after it was configured; a verification started for
\* an earlier URL never marks the new endpoint as verified, so the send
\* gated on the flag never signs for an endpoint that was not verified.
C40_FlagMeansVerified ==
  /\ vfChainOk = "true" => vfPassed
  /\ \A s \in vfSigned : s.passed
====
